---- MODULE Spec2Model ----
(***************************************************************************)
(* Model of the encrypted MFSK acoustic link: the codec layer of           *)
(* cryptofunctions.py, the transmit pipeline of transmitter.py and the     *)
(* streaming receiver (decode_audio) of receiver.py.                       *)
(*                                                                         *)
(* Text is a sequence of code points, bytes are numbers 0..255, bit        *)
(* strings are sequences over {0,1}.  Audio is run-length encoded: a run   *)
(* [tone |-> t, windowed |-> w, at |-> a, n |-> k] is the k consecutive    *)
(* samples from index a on of a waveform the transmitter generates: the    *)
(* tone of symbol t (t in 0..M-1) with or without the fades at its edges,  *)
(* the frequency sweep (t = Sweep), or zero samples (t = Silent).  The     *)
(* powers the Goertzel bank computes are tabulated, rounded to integers,   *)
(* for the slices the receiver is given here.                              *)
(***************************************************************************)
EXTENDS Integers, Sequences, FiniteSets, TLC

(***************************************************************************)
(* Configuration (transmitter.py:8-16, receiver.py:9-29)                   *)
(***************************************************************************)
fs == 44100
baud_rate == 45
M == 16
bits_per_symbol == 4
symbol_len == fs \div baud_rate
preamble_symbols == 16
postamble_symbols == 4
signal_threshold == 100
silence_samples == (fs * 2) \div 10

STX == 2
ETX == 3
Delim == 124
BlockBytes == 16

Silent == 0 - 1
Sweep == 0 - 2

(***************************************************************************)
(* Generic helpers                                                         *)
(***************************************************************************)
Min(a, b) == IF a < b THEN a ELSE b
Max(a, b) == IF a > b THEN a ELSE b

\* Recursion over a sequence splits it in halves, which keeps the depth of
\* evaluation logarithmic in its length.
RECURSIVE SumRange(_, _, _)
SumRange(s, lo, hi) ==
    IF lo > hi THEN 0
    ELSE IF lo = hi THEN s[lo]
    ELSE SumRange(s, lo, (lo + hi) \div 2) + SumRange(s, ((lo + hi) \div 2) + 1, hi)

SumSeq(s) == SumRange(s, 1, Len(s))

RECURSIVE FlattenRange(_, _, _)
FlattenRange(ss, lo, hi) ==
    IF lo > hi THEN <<>>
    ELSE IF lo = hi THEN ss[lo]
    ELSE FlattenRange(ss, lo, (lo + hi) \div 2)
             \o FlattenRange(ss, ((lo + hi) \div 2) + 1, hi)

Flatten(ss) == FlattenRange(ss, 1, Len(ss))

\* exclusive or of two 4-bit values
Xor4 == << <<0, 1, 2, 3, 4, 5, 6, 7, 8, 9, 10, 11, 12, 13, 14, 15>>,
         <<1, 0, 3, 2, 5, 4, 7, 6, 9, 8, 11, 10, 13, 12, 15, 14>>,
         <<2, 3, 0, 1, 6, 7, 4, 5, 10, 11, 8, 9, 14, 15, 12, 13>>,
         <<3, 2, 1, 0, 7, 6, 5, 4, 11, 10, 9, 8, 15, 14, 13, 12>>,
         <<4, 5, 6, 7, 0, 1, 2, 3, 12, 13, 14, 15, 8, 9, 10, 11>>,
         <<5, 4, 7, 6, 1, 0, 3, 2, 13, 12, 15, 14, 9, 8, 11, 10>>,
         <<6, 7, 4, 5, 2, 3, 0, 1, 14, 15, 12, 13, 10, 11, 8, 9>>,
         <<7, 6, 5, 4, 3, 2, 1, 0, 15, 14, 13, 12, 11, 10, 9, 8>>,
         <<8, 9, 10, 11, 12, 13, 14, 15, 0, 1, 2, 3, 4, 5, 6, 7>>,
         <<9, 8, 11, 10, 13, 12, 15, 14, 1, 0, 3, 2, 5, 4, 7, 6>>,
         <<10, 11, 8, 9, 14, 15, 12, 13, 2, 3, 0, 1, 6, 7, 4, 5>>,
         <<11, 10, 9, 8, 15, 14, 13, 12, 3, 2, 1, 0, 7, 6, 5, 4>>,
         <<12, 13, 14, 15, 8, 9, 10, 11, 4, 5, 6, 7, 0, 1, 2, 3>>,
         <<13, 12, 15, 14, 9, 8, 11, 10, 5, 4, 7, 6, 1, 0, 3, 2>>,
         <<14, 15, 12, 13, 10, 11, 8, 9, 6, 7, 4, 5, 2, 3, 0, 1>>,
         <<15, 14, 13, 12, 11, 10, 9, 8, 7, 6, 5, 4, 3, 2, 1, 0>> >>


\* bitwise exclusive or of two bytes, and of two 16-bit words
XorByte(a, b) ==
    16 * Xor4[(a \div 16) + 1][(b \div 16) + 1] + Xor4[(a % 16) + 1][(b % 16) + 1]

Xor(a, b) ==
    256 * XorByte((a \div 256) % 256, (b \div 256) % 256)
        + XorByte(a % 256, b % 256)

Repeat(x, k) == [i \in 1..k |-> x]

\* s[:n] and s[n:] of Python, for 0 <= n
Prefix(s, n) == SubSeq(s, 1, Min(n, Len(s)))
Suffix(s, n) == SubSeq(s, Min(n, Len(s)) + 1, Len(s))

\* f"{v:08b}" and f"{v:04b}" for values that fit
Bits8(v) == [i \in 1..8 |-> (v \div (2 ^ (8 - i))) % 2]
Bits4(v) == [i \in 1..4 |-> (v \div (2 ^ (4 - i))) % 2]

\* int(bits, 2)
BitsToInt(bits) ==
    SumSeq([i \in 1..Len(bits) |-> bits[i] * (2 ^ (Len(bits) - i))])

(***************************************************************************)
(* str.encode() / bytes.decode(): UTF-8                                    *)
(***************************************************************************)
Utf8Char(c) ==
    IF c < 128 THEN <<c>>
    ELSE IF c < 2048 THEN <<192 + (c \div 64), 128 + (c % 64)>>
    ELSE IF c < 65536
         THEN <<224 + (c \div 4096), 128 + ((c \div 64) % 64), 128 + (c % 64)>>
         ELSE <<240 + (c \div 262144), 128 + ((c \div 4096) % 64),
                128 + ((c \div 64) % 64), 128 + (c % 64)>>

Utf8Encode(text) == Flatten([i \in 1..Len(text) |-> Utf8Char(text[i])])

IsCont(b) == b >= 128 /\ b <= 191

\* number of bytes of the character that starts at b[i]; 0 when b[i] starts
\* no well-formed character
Utf8Width(b, i) ==
    LET c == b[i]
        has(k) == i + k <= Len(b) /\ \A j \in 1..k : IsCont(b[i + j])
    IN  IF c < 128 THEN 1
        ELSE IF c >= 194 /\ c <= 223 /\ has(1) THEN 2
        ELSE IF c >= 224 /\ c <= 239 /\ has(2)
                /\ (c = 224 => b[i + 1] >= 160)
                /\ (c = 237 => b[i + 1] <= 159) THEN 3
        ELSE IF c >= 240 /\ c <= 244 /\ has(3)
                /\ (c = 240 => b[i + 1] >= 144)
                /\ (c = 244 => b[i + 1] <= 143) THEN 4
        ELSE 0

Utf8CodePoint(b, i, w) ==
    IF w = 1 THEN b[i]
    ELSE IF w = 2 THEN (b[i] - 192) * 64 + (b[i + 1] - 128)
    ELSE IF w = 3 THEN (b[i] - 224) * 4096 + (b[i + 1] - 128) * 64
                       + (b[i + 2] - 128)
    ELSE (b[i] - 240) * 262144 + (b[i + 1] - 128) * 4096
         + (b[i + 2] - 128) * 64 + (b[i + 3] - 128)

RECURSIVE Utf8DecodeFrom(_, _)
Utf8DecodeFrom(b, i) ==
    IF i > Len(b) THEN [ok |-> TRUE, text |-> <<>>]
    ELSE LET w == Utf8Width(b, i) IN
         IF w = 0 THEN [ok |-> FALSE, text |-> <<>>]
         ELSE LET rest == Utf8DecodeFrom(b, i + w) IN
              IF rest.ok
              THEN [ok |-> TRUE, text |-> <<Utf8CodePoint(b, i, w)>> \o rest.text]
              ELSE rest

\* bytes.decode(): [ok |-> TRUE, text |-> ...], or ok = FALSE for
\* UnicodeDecodeError
Utf8Decode(b) == Utf8DecodeFrom(b, 1)

(***************************************************************************)
(* base64.b64encode / base64.b64decode                                     *)
(***************************************************************************)
B64Char(v) ==
    IF v < 26 THEN 65 + v
    ELSE IF v < 52 THEN 97 + (v - 26)
    ELSE IF v < 62 THEN 48 + (v - 52)
    ELSE IF v = 62 THEN 43 ELSE 47

\* table_a2b_base64: 64 for a character outside the alphabet
B64Value(c) ==
    IF c >= 65 /\ c <= 90 THEN c - 65
    ELSE IF c >= 97 /\ c <= 122 THEN c - 97 + 26
    ELSE IF c >= 48 /\ c <= 57 THEN c - 48 + 52
    ELSE IF c = 43 THEN 62
    ELSE IF c = 47 THEN 63 ELSE 64

B64Pad == 61

\* binascii.b2a_base64: 3 bytes make 4 characters, the last group is padded
b64encode(b) ==
    LET byte(k) == IF k <= Len(b) THEN b[k] ELSE 0
        quad(g) ==
            LET b1 == byte(3 * g + 1)
                b2 == byte(3 * g + 2)
                b3 == byte(3 * g + 3)
            IN  <<B64Char(b1 \div 4),
                  B64Char(((b1 % 4) * 16) + (b2 \div 16)),
                  IF 3 * g + 2 <= Len(b)
                  THEN B64Char(((b2 % 16) * 4) + (b3 \div 64)) ELSE B64Pad,
                  IF 3 * g + 3 <= Len(b) THEN B64Char(b3 % 64) ELSE B64Pad>>
    IN  [k \in 1..(4 * ((Len(b) + 2) \div 3)) |->
            quad((k - 1) \div 4)[((k - 1) % 4) + 1]]

IsB64Data(c) == B64Value(c) < 64

\* binascii.a2b_base64, non-strict.  Characters outside the alphabet are
\* skipped.  quad_pos is the number of data characters read so far mod 4; a
\* pad ends the input when quad_pos + pads >= 4, where pads counts the pads
\* read at quad_pos >= 2 since the last data character.  Input that ends
\* inside a quad raises binascii.Error.
A2bBase64(s) ==
    LET kept == SelectSeq(s, LAMBDA c : IsB64Data(c) \/ c = B64Pad)
        dataBefore(p) == Cardinality({j \in 1..(p - 1) : kept[j] # B64Pad})
        stops(p) ==
            /\ kept[p] = B64Pad
            /\ \/ dataBefore(p) % 4 = 3
               \/ dataBefore(p) % 4 = 2 /\ p > 1 /\ kept[p - 1] = B64Pad
        stopSet == {p \in 1..Len(kept) : stops(p)}
        end == IF stopSet = {} THEN Len(kept)
               ELSE (CHOOSE p \in stopSet : \A q \in stopSet : p <= q) - 1
        vals == SelectSeq(SubSeq(kept, 1, end), IsB64Data)
        v(k) == IF k <= Len(vals) THEN B64Value(vals[k]) ELSE 0
        nbytes == 3 * (Len(vals) \div 4)
                  + (IF Len(vals) % 4 = 0 THEN 0 ELSE (Len(vals) % 4) - 1)
        byte(k) ==
            LET g == 4 * ((k - 1) \div 3)
                o == (k - 1) % 3
            IN  IF o = 0 THEN (v(g + 1) * 4) + (v(g + 2) \div 16)
                ELSE IF o = 1 THEN ((v(g + 2) % 16) * 16) + (v(g + 3) \div 4)
                ELSE ((v(g + 3) % 4) * 64) + v(g + 4)
    IN  IF stopSet = {} /\ Len(vals) % 4 # 0
        THEN [ok |-> FALSE, data |-> <<>>]
        ELSE [ok |-> TRUE, data |-> [k \in 1..nbytes |-> byte(k)]]

\* base64.b64decode(str): the string must be ASCII
b64decode(s) ==
    IF \E i \in 1..Len(s) : s[i] >= 128
    THEN [ok |-> FALSE, data |-> <<>>]
    ELSE A2bBase64(s)

(***************************************************************************)
(* CRC (cryptofunctions.py:56-62)                                          *)
(***************************************************************************)
CrcPoly == 4129
CrcInit == 65535

CrcShift1(crc) ==
    IF crc >= 32768 THEN Xor((2 * crc) % 65536, CrcPoly) ELSE 2 * crc

\* one byte through the register: eight shifts
CrcByte(crc, byte) ==
    CrcShift1(CrcShift1(CrcShift1(CrcShift1(CrcShift1(CrcShift1(CrcShift1(
        CrcShift1(Xor(crc, byte * 256)))))))))

\* the register after data[lo..hi], starting from crc.  The first half is
\* evaluated before the second half is entered.
RECURSIVE CrcRange(_, _, _, _)
CrcRange(data, lo, hi, crc) ==
    IF lo > hi THEN crc
    ELSE IF lo = hi THEN CrcByte(crc, data[lo])
    ELSE LET left == CrcRange(data, lo, (lo + hi) \div 2, crc)
         IN  IF left \in 0..65535
             THEN CrcRange(data, ((lo + hi) \div 2) + 1, hi, left)
             ELSE left

\* binascii.crc_hqx(data, value)
crc_hqx(data, crc) == CrcRange(data, 1, Len(data), crc)

HexDigit(v) == IF v < 10 THEN 48 + v ELSE 65 + (v - 10)

\* f"{crc:04X}"
Hex4(v) == <<HexDigit(v \div 4096), HexDigit((v \div 256) % 16),
             HexDigit((v \div 16) % 16), HexDigit(v % 16)>>

\* str.upper(), on the characters a frame can carry (only a-z change into
\* characters that a hex digit can equal)
Upper(text) == [i \in 1..Len(text) |->
                   IF text[i] >= 97 /\ text[i] <= 122 THEN text[i] - 32
                                                      ELSE text[i]]

\* the CRC with a register that starts at 0
ComputeCrcXmodem(data) == Hex4(crc_hqx(Utf8Encode(data), 0))

compute_crc(data) == Hex4(crc_hqx(Utf8Encode(data), CrcInit))

\* a check of the form of the CRC field only
LooksLikeCrc(data, crc_hex) == Len(crc_hex) = 4

verify_crc(data, crc_hex) == Upper(compute_crc(data)) = Upper(crc_hex)

(***************************************************************************)
(* Hamming(7,4) (cryptofunctions.py:64-92)                                 *)
(***************************************************************************)
G == << <<1, 1, 0, 1>>,
        <<1, 0, 1, 1>>,
        <<1, 0, 0, 0>>,
        <<0, 1, 1, 1>>,
        <<0, 1, 0, 0>>,
        <<0, 0, 1, 0>>,
        <<0, 0, 0, 1>> >>

H == << <<1, 0, 1, 0, 1, 0, 1>>,
        <<0, 1, 1, 0, 0, 1, 1>>,
        <<0, 0, 0, 1, 1, 1, 1>> >>

hamming_encode_4bit(nibble) ==
    LET bits == Bits4(nibble % 16)
    IN  [i \in 1..7 |-> SumSeq([j \in 1..4 |-> bits[j] * G[i][j]]) % 2]

\* error_pos of hamming_decode_7bit: the syndrome read as a binary number
error_pos(bits) ==
    BitsToInt([i \in 1..3 |-> SumSeq([j \in 1..7 |-> H[i][j] * bits[j]]) % 2])

\* a decoder that takes error_pos as an index counted from 0
HammingRaisesFromZero(bits) ==
    Len(bits) < 7 \/ (error_pos(bits) # 0 /\ error_pos(bits) >= Len(bits))

\* hamming_decode_7bit raises IndexError when bits[j] or bits[error_pos - 1]
\* is past the end of bits
HammingRaises(bits) ==
    Len(bits) < 7 \/ (error_pos(bits) # 0 /\ error_pos(bits) - 1 >= Len(bits))

hamming_decode_7bit(bits) ==
    LET fixed == IF error_pos(bits) # 0
                 THEN [bits EXCEPT ![error_pos(bits)] = 1 - @]
                 ELSE bits
    IN  8 * fixed[3] + 4 * fixed[5] + 2 * fixed[6] + fixed[7]

(***************************************************************************)
(* Crypto envelope (cryptofunctions.py:9-54).  AES-256 in CBC mode is      *)
(* computed as FIPS 197 defines it; the keys PBKDF2 derives are tabulated  *)
(* for the passphrases and salts used here.  os.urandom's results (salt,   *)
(* iv) are parameters.                                                     *)
(***************************************************************************)
\* PBKDF2-HMAC-SHA256 with 100,000 iterations and 32 bytes of output
\* (cryptofunctions.py:11-18): the keys it derives from the UTF-8 bytes of
\* the passphrases '', 'pw', 'k2' and 'k6' with each of the two salts that
\* os.urandom is taken to return.  The derivation is a table of these
\* values; it has no value for another passphrase or salt.
Pbkdf2HmacSha256 ==
    {[password |-> <<>>,
      salt |-> <<11, 22, 33, 44, 55, 66, 77, 88, 99, 110, 121, 132, 143, 154, 165, 176>>,
      key |-> <<16, 208, 36, 133, 243, 193, 213, 194, 99, 12, 144, 233, 61, 147, 229, 92,
              154, 49, 191, 187, 114, 67, 7, 246, 203, 112, 216, 110, 220, 53, 15, 89>>],
     [password |-> <<>>,
      salt |-> <<207, 214, 221, 228, 235, 242, 249, 0, 7, 14, 21, 28, 35, 42, 49, 56>>,
      key |-> <<239, 105, 66, 76, 31, 104, 250, 162, 80, 93, 118, 176, 67, 57, 63, 173,
              119, 158, 30, 81, 153, 65, 31, 136, 230, 132, 145, 6, 43, 140, 180, 227>>],
     [password |-> <<112, 119>>,
      salt |-> <<11, 22, 33, 44, 55, 66, 77, 88, 99, 110, 121, 132, 143, 154, 165, 176>>,
      key |-> <<82, 176, 31, 43, 208, 216, 44, 6, 29, 11, 88, 219, 197, 206, 169, 135,
              239, 235, 31, 58, 171, 229, 100, 195, 38, 133, 69, 75, 148, 16, 123, 224>>],
     [password |-> <<112, 119>>,
      salt |-> <<207, 214, 221, 228, 235, 242, 249, 0, 7, 14, 21, 28, 35, 42, 49, 56>>,
      key |-> <<107, 37, 50, 27, 112, 98, 133, 61, 20, 5, 38, 12, 171, 154, 115, 224,
              201, 105, 183, 76, 238, 85, 59, 210, 129, 190, 8, 182, 114, 67, 195, 189>>],
     [password |-> <<107, 50>>,
      salt |-> <<11, 22, 33, 44, 55, 66, 77, 88, 99, 110, 121, 132, 143, 154, 165, 176>>,
      key |-> <<245, 84, 19, 0, 70, 198, 245, 184, 57, 115, 131, 164, 169, 25, 60, 164,
              21, 151, 41, 173, 128, 255, 240, 227, 104, 35, 147, 74, 126, 202, 242, 36>>],
     [password |-> <<107, 50>>,
      salt |-> <<207, 214, 221, 228, 235, 242, 249, 0, 7, 14, 21, 28, 35, 42, 49, 56>>,
      key |-> <<162, 250, 15, 14, 197, 147, 226, 65, 231, 217, 222, 38, 34, 65, 169, 9,
              50, 219, 85, 76, 161, 217, 245, 20, 92, 247, 207, 218, 115, 98, 204, 15>>],
     [password |-> <<107, 54>>,
      salt |-> <<11, 22, 33, 44, 55, 66, 77, 88, 99, 110, 121, 132, 143, 154, 165, 176>>,
      key |-> <<28, 43, 60, 79, 95, 146, 36, 225, 133, 54, 175, 244, 2, 178, 12, 1,
              78, 247, 117, 153, 121, 134, 254, 154, 132, 59, 219, 247, 147, 192, 37, 19>>],
     [password |-> <<107, 54>>,
      salt |-> <<207, 214, 221, 228, 235, 242, 249, 0, 7, 14, 21, 28, 35, 42, 49, 56>>,
      key |-> <<36, 83, 113, 86, 62, 9, 234, 104, 77, 116, 147, 195, 37, 30, 59, 207,
              73, 182, 179, 131, 112, 11, 198, 233, 63, 40, 149, 234, 80, 111, 199, 109>>]}

derive_key(password, salt) ==
    (CHOOSE row \in Pbkdf2HmacSha256 :
        row.password = Utf8Encode(password) /\ row.salt = salt).key

XorBytes(a, b) == [i \in 1..Len(a) |-> XorByte(a[i], b[i])]

\* the S-box of AES and its inverse (FIPS 197, figures 7 and 14)
SBox == <<
    99, 124, 119, 123, 242, 107, 111, 197, 48, 1, 103, 43, 254, 215, 171, 118,
    202, 130, 201, 125, 250, 89, 71, 240, 173, 212, 162, 175, 156, 164, 114, 192,
    183, 253, 147, 38, 54, 63, 247, 204, 52, 165, 229, 241, 113, 216, 49, 21,
    4, 199, 35, 195, 24, 150, 5, 154, 7, 18, 128, 226, 235, 39, 178, 117,
    9, 131, 44, 26, 27, 110, 90, 160, 82, 59, 214, 179, 41, 227, 47, 132,
    83, 209, 0, 237, 32, 252, 177, 91, 106, 203, 190, 57, 74, 76, 88, 207,
    208, 239, 170, 251, 67, 77, 51, 133, 69, 249, 2, 127, 80, 60, 159, 168,
    81, 163, 64, 143, 146, 157, 56, 245, 188, 182, 218, 33, 16, 255, 243, 210,
    205, 12, 19, 236, 95, 151, 68, 23, 196, 167, 126, 61, 100, 93, 25, 115,
    96, 129, 79, 220, 34, 42, 144, 136, 70, 238, 184, 20, 222, 94, 11, 219,
    224, 50, 58, 10, 73, 6, 36, 92, 194, 211, 172, 98, 145, 149, 228, 121,
    231, 200, 55, 109, 141, 213, 78, 169, 108, 86, 244, 234, 101, 122, 174, 8,
    186, 120, 37, 46, 28, 166, 180, 198, 232, 221, 116, 31, 75, 189, 139, 138,
    112, 62, 181, 102, 72, 3, 246, 14, 97, 53, 87, 185, 134, 193, 29, 158,
    225, 248, 152, 17, 105, 217, 142, 148, 155, 30, 135, 233, 206, 85, 40, 223,
    140, 161, 137, 13, 191, 230, 66, 104, 65, 153, 45, 15, 176, 84, 187, 22 >>

InvSBox == <<
    82, 9, 106, 213, 48, 54, 165, 56, 191, 64, 163, 158, 129, 243, 215, 251,
    124, 227, 57, 130, 155, 47, 255, 135, 52, 142, 67, 68, 196, 222, 233, 203,
    84, 123, 148, 50, 166, 194, 35, 61, 238, 76, 149, 11, 66, 250, 195, 78,
    8, 46, 161, 102, 40, 217, 36, 178, 118, 91, 162, 73, 109, 139, 209, 37,
    114, 248, 246, 100, 134, 104, 152, 22, 212, 164, 92, 204, 93, 101, 182, 146,
    108, 112, 72, 80, 253, 237, 185, 218, 94, 21, 70, 87, 167, 141, 157, 132,
    144, 216, 171, 0, 140, 188, 211, 10, 247, 228, 88, 5, 184, 179, 69, 6,
    208, 44, 30, 143, 202, 63, 15, 2, 193, 175, 189, 3, 1, 19, 138, 107,
    58, 145, 17, 65, 79, 103, 220, 234, 151, 242, 207, 206, 240, 180, 230, 115,
    150, 172, 116, 34, 231, 173, 53, 133, 226, 249, 55, 232, 28, 117, 223, 110,
    71, 241, 26, 113, 29, 41, 197, 137, 111, 183, 98, 14, 170, 24, 190, 27,
    252, 86, 62, 75, 198, 210, 121, 32, 154, 219, 192, 254, 120, 205, 90, 244,
    31, 221, 168, 51, 136, 7, 199, 49, 177, 18, 16, 89, 39, 128, 236, 95,
    96, 81, 127, 169, 25, 181, 74, 13, 45, 229, 122, 159, 147, 201, 156, 239,
    160, 224, 59, 77, 174, 42, 245, 176, 200, 235, 187, 60, 131, 83, 153, 97,
    23, 43, 4, 126, 186, 119, 214, 38, 225, 105, 20, 99, 85, 33, 12, 125 >>

\* multiplication by x in GF(2^8) modulo x^8 + x^4 + x^3 + x + 1
XTime(b) == IF b < 128 THEN 2 * b ELSE XorByte((2 * b) % 256, 27)

Mul3(b) == XorByte(XTime(b), b)
Mul9(b) == XorByte(XTime(XTime(XTime(b))), b)
Mul11(b) == XorByte(XTime(XorByte(XTime(XTime(b)), b)), b)
Mul13(b) == XorByte(XTime(XTime(XorByte(XTime(b), b))), b)
Mul14(b) == XTime(XorByte(XTime(XorByte(XTime(b), b)), b))

Xor3(a, b, c) == XorByte(XorByte(a, b), c)
Xor4Bytes(a, b, c, d) == XorByte(XorByte(a, b), XorByte(c, d))

\* the key schedule of AES-256: 60 words of four bytes
Rcon == <<1, 2, 4, 8, 16, 32, 64>>

SubWord(w) == <<SBox[w[1] + 1], SBox[w[2] + 1], SBox[w[3] + 1], SBox[w[4] + 1]>>

XorWord(a, b) == <<XorByte(a[1], b[1]), XorByte(a[2], b[2]),
                   XorByte(a[3], b[3]), XorByte(a[4], b[4])>>

NextWord(w, back, prev) ==
    IF Len(w) % 8 = 0
    THEN XorWord(back, XorWord(SubWord(<<prev[2], prev[3], prev[4], prev[1]>>),
                               <<Rcon[Len(w) \div 8], 0, 0, 0>>))
    ELSE IF Len(w) % 8 = 4 THEN XorWord(back, SubWord(prev))
    ELSE XorWord(back, prev)

RECURSIVE ExpandWords(_)
ExpandWords(w) ==
    IF Len(w) = 60 THEN w
    ELSE ExpandWords(Append(w, NextWord(w, w[Len(w) - 7], w[Len(w)])))

\* the 15 round keys of 16 bytes
KeyExpansion(key) ==
    LET w == ExpandWords([i \in 1..8 |-> SubSeq(key, 4 * i - 3, 4 * i)])
    IN  [r \in 1..15 |-> w[4 * r - 3] \o w[4 * r - 2] \o w[4 * r - 1] \o w[4 * r]]

\* column c (0..3) of the state after SubBytes and ShiftRows
ShiftedColumn(s, c) ==
    <<SBox[s[4 * c + 1] + 1],
      SBox[s[4 * ((c + 1) % 4) + 2] + 1],
      SBox[s[4 * ((c + 2) % 4) + 3] + 1],
      SBox[s[4 * ((c + 3) % 4) + 4] + 1]>>

MixColumn(a) ==
    <<Xor4Bytes(XTime(a[1]), Mul3(a[2]), a[3], a[4]),
      Xor4Bytes(a[1], XTime(a[2]), Mul3(a[3]), a[4]),
      Xor4Bytes(a[1], a[2], XTime(a[3]), Mul3(a[4])),
      Xor4Bytes(Mul3(a[1]), a[2], a[3], XTime(a[4]))>>

AddRoundKey(s, k) ==
    <<XorByte(s[1], k[1]), XorByte(s[2], k[2]), XorByte(s[3], k[3]),
      XorByte(s[4], k[4]), XorByte(s[5], k[5]), XorByte(s[6], k[6]),
      XorByte(s[7], k[7]), XorByte(s[8], k[8]), XorByte(s[9], k[9]),
      XorByte(s[10], k[10]), XorByte(s[11], k[11]), XorByte(s[12], k[12]),
      XorByte(s[13], k[13]), XorByte(s[14], k[14]), XorByte(s[15], k[15]),
      XorByte(s[16], k[16])>>

\* rounds r..13 and the final round, on state s; each round is evaluated
\* before the next one is entered
RECURSIVE CipherRounds(_, _, _)
CipherRounds(s, keys, r) ==
    IF r = 14
    THEN AddRoundKey(ShiftedColumn(s, 0) \o ShiftedColumn(s, 1)
                        \o ShiftedColumn(s, 2) \o ShiftedColumn(s, 3), keys[15])
    ELSE CHOOSE out \in
             {CipherRounds(t, keys, r + 1) :
                 t \in {AddRoundKey(MixColumn(ShiftedColumn(s, 0))
                                       \o MixColumn(ShiftedColumn(s, 1))
                                       \o MixColumn(ShiftedColumn(s, 2))
                                       \o MixColumn(ShiftedColumn(s, 3)),
                                   keys[r + 1])}} : TRUE

\* AES-256 on one block (FIPS 197, Cipher)
AesEncryptBlock(key, block) ==
    \* the key schedule is bound once
    CHOOSE out \in {CipherRounds(AddRoundKey(block, keys[1]), keys, 1) :
                       keys \in {KeyExpansion(key)}} : TRUE

\* column c of the state after InvShiftRows and InvSubBytes
InvShiftedColumn(s, c) ==
    <<InvSBox[s[4 * c + 1] + 1],
      InvSBox[s[4 * ((c + 3) % 4) + 2] + 1],
      InvSBox[s[4 * ((c + 2) % 4) + 3] + 1],
      InvSBox[s[4 * ((c + 1) % 4) + 4] + 1]>>

InvMixColumn(a) ==
    <<Xor4Bytes(Mul14(a[1]), Mul11(a[2]), Mul13(a[3]), Mul9(a[4])),
      Xor4Bytes(Mul9(a[1]), Mul14(a[2]), Mul11(a[3]), Mul13(a[4])),
      Xor4Bytes(Mul13(a[1]), Mul9(a[2]), Mul14(a[3]), Mul11(a[4])),
      Xor4Bytes(Mul11(a[1]), Mul13(a[2]), Mul9(a[3]), Mul14(a[4]))>>

InvShifted(s) ==
    InvShiftedColumn(s, 0) \o InvShiftedColumn(s, 1)
        \o InvShiftedColumn(s, 2) \o InvShiftedColumn(s, 3)

InvMixColumns(s) ==
    InvMixColumn(SubSeq(s, 1, 4)) \o InvMixColumn(SubSeq(s, 5, 8))
        \o InvMixColumn(SubSeq(s, 9, 12)) \o InvMixColumn(SubSeq(s, 13, 16))

\* rounds r..1 and the last key addition, on state s
RECURSIVE InvCipherRounds(_, _, _)
InvCipherRounds(s, keys, r) ==
    IF r = 0 THEN AddRoundKey(InvShifted(s), keys[1])
    ELSE CHOOSE out \in
             {InvCipherRounds(t, keys, r - 1) :
                 t \in {InvMixColumns(AddRoundKey(InvShifted(s), keys[r + 1]))}} : TRUE

\* AES-256 on one block, inverted (FIPS 197, InvCipher)
AesDecryptBlock(key, block) ==
    CHOOSE out \in {InvCipherRounds(AddRoundKey(block, keys[15]), keys, 13) :
                       keys \in {KeyExpansion(key)}} : TRUE

\* CBC: each plaintext block is xored with the previous ciphertext block
\* (the iv for the first) and encrypted.  data is a whole number of blocks.
RECURSIVE CbcEncrypt(_, _, _)
CbcEncrypt(key, prev, data) ==
    IF Len(data) = 0 THEN <<>>
    ELSE LET c == AesEncryptBlock(key, XorBytes(Prefix(data, BlockBytes), prev))
         IN  c \o CbcEncrypt(key, c, Suffix(data, BlockBytes))

CbcDecrypt(key, iv, data) ==
    LET block(g) == SubSeq(data, BlockBytes * (g - 1) + 1, BlockBytes * g)
        plain(g) == XorBytes(AesDecryptBlock(key, block(g)),
                             IF g = 1 THEN iv ELSE block(g - 1))
    IN  Flatten([g \in 1..(Len(data) \div BlockBytes) |-> plain(g)])

\* a padding that adds nothing to a whole number of blocks
PaddingToBlock(data) ==
    LET padding_length == (BlockBytes - (Len(data) % BlockBytes)) % BlockBytes
    IN  Repeat(padding_length, padding_length)

\* the PKCS#7 padding encrypt appends
Padding(data) ==
    LET padding_length == BlockBytes - (Len(data) % BlockBytes)
    IN  Repeat(padding_length, padding_length)

encrypt(plaintext, password, salt, iv) ==
    LET key == derive_key(password, salt)
        padded_plaintext == Utf8Encode(plaintext) \o Padding(Utf8Encode(plaintext))
        ciphertext == CbcEncrypt(key, iv, padded_plaintext)
    IN  b64encode(salt \o iv \o ciphertext)

\* padded_plaintext[:-padding_length]
StripPadding(padded_plaintext) ==
    LET padding_length == padded_plaintext[Len(padded_plaintext)]
    IN  IF padding_length = 0 THEN <<>>
        ELSE Prefix(padded_plaintext, Max(0, Len(padded_plaintext) - padding_length))

CipherError == [ok |-> FALSE, text |-> <<>>]

\* padded_plaintext[-1] raises on empty data; then the strip and .decode()
Unpad(padded_plaintext) ==
    IF padded_plaintext = <<>> THEN CipherError
    ELSE Utf8Decode(StripPadding(padded_plaintext))

\* the cipher raises for an iv that is not one block and for a ciphertext
\* that is not a whole number of blocks
DecryptParts(salt, iv, ciphertext, password) ==
    IF Len(iv) # BlockBytes THEN CipherError
    ELSE IF Len(ciphertext) % BlockBytes # 0 THEN CipherError
    ELSE Unpad(CbcDecrypt(derive_key(password, salt), iv, ciphertext))

\* salt = decoded[:16], iv = decoded[16:32], ciphertext = decoded[32:]
DecryptDecoded(decoded, password) ==
    IF ~decoded.ok THEN CipherError
    ELSE DecryptParts(Prefix(decoded.data, 16),
                      Prefix(Suffix(decoded.data, 16), 16),
                      Suffix(decoded.data, 32), password)

\* [ok |-> TRUE, text |-> plaintext], or CipherError when any step raises
decrypt(encrypted_data, password) ==
    DecryptDecoded(b64decode(encrypted_data), password)

(***************************************************************************)
(* Transmitter (transmitter.py:47-172)                                     *)
(***************************************************************************)
text_to_bits(text) == Flatten([i \in 1..Len(text) |-> Bits8(text[i])])

\* a grouping that drops an incomplete last group instead of padding it
BitsToSymbolsCut(bits) ==
    [i \in 1..(Len(bits) \div bits_per_symbol) |->
        BitsToInt(SubSeq(bits, (i - 1) * bits_per_symbol + 1,
                         i * bits_per_symbol))]

bits_to_symbols(bits) ==
    LET padded == bits \o Repeat(0, (bits_per_symbol - (Len(bits) % bits_per_symbol))
                                     % bits_per_symbol)
    IN  [i \in 1..(Len(padded) \div bits_per_symbol) |->
            BitsToInt(SubSeq(padded, (i - 1) * bits_per_symbol + 1,
                             i * bits_per_symbol))]

generate_preamble(priority) ==
    IF priority = "urgent"
    THEN [i \in 1..(2 * (preamble_symbols \div 2)) |->
             IF i % 2 = 1 THEN M - 1 ELSE 0]
    ELSE [i \in 1..preamble_symbols |-> (i - 1) % M]

generate_postamble ==
    [i \in 1..(2 * (postamble_symbols \div 2)) |->
        IF i % 2 = 1 THEN 1 ELSE M - 2]

\* a frame that carries the bytes of the ciphertext, not their Base64 text
FrameMessageRaw(message, password, salt, iv) ==
    LET encrypted == b64decode(encrypt(message, password, salt, iv)).data
        crc == compute_crc(encrypted)
    IN  <<STX>> \o encrypted \o <<Delim>> \o crc \o <<ETX>>

\* payload_with_crc framed with STX and ETX (transmitter.py:107-119)
FrameMessage(message, password, salt, iv) ==
    LET encrypted == encrypt(message, password, salt, iv)
        crc == compute_crc(encrypted)
    IN  <<STX>> \o encrypted \o <<Delim>> \o crc \o <<ETX>>

\* Hamming encoding of the frame's nibbles (transmitter.py:122-126)
EncodeFrame(framed) ==
    LET raw_bits == text_to_bits(framed)
    IN  Flatten([i \in 1..(Len(raw_bits) \div 4) |->
                    hamming_encode_4bit(
                        BitsToInt(SubSeq(raw_bits, 4 * i - 3, 4 * i)))])

\* preamble, data symbols, postamble (transmitter.py:112-132)
AllSymbols(framed, priority) ==
    generate_preamble(priority) \o bits_to_symbols(EncodeFrame(framed))
        \o generate_postamble

\* n samples of a waveform from index at on
Run(tone, windowed, at, n) ==
    [tone |-> tone, windowed |-> windowed, at |-> at, n |-> n]

\* np.zeros(n)
Zeros(n) == Run(Silent, FALSE, 0, n)

\* generate_mfsk_tone: symbol_len samples of the symbol's tone, with the
\* Hanning fades at both edges when apply_windowing is set
generate_mfsk_tone(symbol_value, apply_windowing) ==
    Run(symbol_value, apply_windowing, 0, symbol_len)

\* silence, tones, silence (transmitter.py:147-158)
FinalSignal(all_symbols) ==
    <<Zeros(silence_samples)>>
        \o [i \in 1..Len(all_symbols) |-> generate_mfsk_tone(all_symbols[i], TRUE)]
        \o <<Zeros(silence_samples)>>

\* the samples send_message plays
send_message(message, priority, password, salt, iv) ==
    FinalSignal(AllSymbols(FrameMessage(message, password, salt, iv), priority))

\* list(range(M)) * 3
test_symbols == [i \in 1..(3 * M) |-> (i - 1) % M]

\* int(fs * sweep_duration)
sweep_samples == fs * 2

\* the signal send_test_pattern plays (transmitter.py:174-199): each tone
\* three times without fades, then the frequency sweep; no silence
TestPattern ==
    [i \in 1..Len(test_symbols) |-> generate_mfsk_tone(test_symbols[i], FALSE)]
        \o <<Run(Sweep, FALSE, 0, sweep_samples)>>

(***************************************************************************)
(* Audio as runs of samples                                                *)
(***************************************************************************)
SamplesLen(runs) == SumSeq([i \in 1..Len(runs) |-> runs[i].n])

AllZero(runs) == \A i \in 1..Len(runs) : runs[i].tone = Silent

\* the first k samples, and what follows them
RECURSIVE TakeSamples(_, _)
TakeSamples(runs, k) ==
    IF k = 0 \/ Len(runs) = 0 THEN <<>>
    ELSE IF runs[1].n <= k
    THEN <<runs[1]>> \o TakeSamples(Tail(runs), k - runs[1].n)
    ELSE <<[runs[1] EXCEPT !.n = k]>>

RECURSIVE DropSamples(_, _)
DropSamples(runs, k) ==
    IF k = 0 \/ Len(runs) = 0 THEN runs
    ELSE IF runs[1].n <= k THEN DropSamples(Tail(runs), k - runs[1].n)
    ELSE <<[runs[1] EXCEPT !.at = IF runs[1].tone = Silent THEN 0 ELSE @ + k,
                           !.n = @ - k]>> \o Tail(runs)

\* run b goes on where run a stops
Continues(a, b) ==
    /\ a.tone = b.tone
    /\ a.windowed = b.windowed
    /\ a.tone = Silent \/ a.at + a.n = b.at

\* np.append: a run and the run that continues it are one run
AppendSamples(buf, block) ==
    IF Len(buf) > 0 /\ Len(block) > 0 /\ Continues(buf[Len(buf)], block[1])
    THEN SubSeq(buf, 1, Len(buf) - 1)
         \o <<[buf[Len(buf)] EXCEPT !.n = @ + block[1].n]>>
         \o Tail(block)
    ELSE buf \o block

(***************************************************************************)
(* Receiver (receiver.py:77-342)                                           *)
(***************************************************************************)
None == 0 - 1

sync_patterns ==
    [normal |-> [i \in 1..preamble_symbols |-> (i - 1) % M],
     urgent |-> [i \in 1..(2 * (preamble_symbols \div 2)) |->
                    IF i % 2 = 1 THEN M - 1 ELSE 0]]

max_sync_len == Max(Len(sync_patterns.normal), Len(sync_patterns.urgent))

\* The powers goertzel_bank_optimized (receiver.py:77-108) computes for a
\* slice of symbol_len samples, in the bins of the M frequencies, and their
\* sum (receiver.py:114), each rounded to the nearest integer.  The slices
\* are those the streams below give the
\* receiver: zero samples, a whole tone with and without the fades, a tone
\* that stops after 500 samples, the slices of the frequency sweep, and the
\* slices that follow the loss of one or two blocks of 512 samples.
GoertzelBank ==
    {[samples |-> <<Run(Silent, FALSE, 0, 980)>>,
      powers |-> <<0, 0, 0, 0, 0, 0, 0, 0, 0, 0, 0, 0, 0, 0, 0, 0>>,
      total_power |-> 0],
     [samples |-> <<Run(0, TRUE, 0, 980)>>,
      powers |-> <<16786, 471, 85, 37, 15, 5, 0, 0, 0, 0, 0, 0, 0, 0, 0, 0>>,
      total_power |-> 17400],
     [samples |-> <<Run(1, TRUE, 0, 980)>>,
      powers |-> <<255, 10422, 308, 70, 18, 3, 0, 1, 1, 1, 1, 0, 0, 0, 0, 0>>,
      total_power |-> 11080],
     [samples |-> <<Run(2, TRUE, 0, 980)>>,
      powers |-> <<87, 295, 13844, 154, 13, 0, 3, 4, 4, 3, 2, 0, 0, 0, 0, 0>>,
      total_power |-> 14409],
     [samples |-> <<Run(3, TRUE, 0, 980)>>,
      powers |-> <<36, 67, 220, 18777, 0, 11, 17, 14, 10, 5, 2, 0, 0, 0, 0, 0>>,
      total_power |-> 19160],
     [samples |-> <<Run(4, TRUE, 0, 980)>>,
      powers |-> <<14, 17, 11, 0, 18777, 221, 67, 36, 18, 8, 3, 0, 0, 0, 0, 0>>,
      total_power |-> 19172],
     [samples |-> <<Run(5, TRUE, 0, 980)>>,
      powers |-> <<4, 3, 0, 13, 154, 13843, 295, 87, 30, 9, 2, 0, 0, 1, 1, 0>>,
      total_power |-> 14442],
     [samples |-> <<Run(6, TRUE, 0, 980)>>,
      powers |-> <<1, 0, 3, 17, 70, 308, 10422, 255, 41, 6, 0, 1, 2, 2, 1, 1>>,
      total_power |-> 11132],
     [samples |-> <<Run(7, TRUE, 0, 980)>>,
      powers |-> <<0, 0, 5, 15, 37, 85, 471, 16786, 50, 0, 4, 8, 7, 5, 3, 1>>,
      total_power |-> 17478],
     [samples |-> <<Run(8, TRUE, 0, 980)>>,
      powers |-> <<0, 1, 4, 10, 18, 29, 45, 52, 19481, 52, 45, 29, 18, 10, 4, 1>>,
      total_power |-> 19799],
     [samples |-> <<Run(9, TRUE, 0, 980)>>,
      powers |-> <<0, 1, 3, 5, 7, 8, 4, 0, 50, 16786, 471, 85, 37, 15, 5, 0>>,
      total_power |-> 17478],
     [samples |-> <<Run(10, TRUE, 0, 980)>>,
      powers |-> <<0, 1, 1, 2, 2, 2, 0, 6, 41, 255, 10422, 308, 70, 18, 3, 0>>,
      total_power |-> 11131],
     [samples |-> <<Run(11, TRUE, 0, 980)>>,
      powers |-> <<0, 0, 1, 1, 0, 0, 2, 9, 30, 87, 295, 13843, 154, 13, 0, 3>>,
      total_power |-> 14437],
     [samples |-> <<Run(12, TRUE, 0, 980)>>,
      powers |-> <<0, 0, 0, 0, 0, 0, 3, 8, 18, 36, 67, 220, 18777, 0, 11, 17>>,
      total_power |-> 19158],
     [samples |-> <<Run(13, TRUE, 0, 980)>>,
      powers |-> <<0, 0, 0, 0, 0, 0, 2, 5, 10, 14, 17, 11, 0, 18777, 220, 67>>,
      total_power |-> 19124],
     [samples |-> <<Run(14, TRUE, 0, 980)>>,
      powers |-> <<0, 0, 0, 0, 0, 0, 2, 3, 4, 4, 3, 0, 13, 154, 13843, 295>>,
      total_power |-> 14322],
     [samples |-> <<Run(15, TRUE, 0, 980)>>,
      powers |-> <<0, 0, 0, 0, 0, 0, 1, 1, 1, 1, 0, 3, 18, 70, 308, 10422>>,
      total_power |-> 10825],
     [samples |-> <<Run(0, FALSE, 0, 980)>>,
      powers |-> <<18262, 294, 42, 22, 13, 9, 6, 4, 4, 3, 3, 2, 2, 2, 1, 1>>,
      total_power |-> 18669],
     [samples |-> <<Run(1, FALSE, 0, 980)>>,
      powers |-> <<389, 10924, 298, 88, 40, 22, 11, 8, 6, 4, 3, 2, 2, 2, 1, 1>>,
      total_power |-> 11800],
     [samples |-> <<Run(2, FALSE, 0, 980)>>,
      powers |-> <<85, 247, 14661, 286, 79, 36, 16, 10, 7, 5, 4, 3, 2, 2, 2, 1>>,
      total_power |-> 15448],
     [samples |-> <<Run(3, FALSE, 0, 980)>>,
      powers |-> <<5, 10, 69, 20796, 60, 17, 6, 4, 3, 2, 1, 1, 1, 1, 1, 1>>,
      total_power |-> 20975],
     [samples |-> <<Run(4, FALSE, 0, 980)>>,
      powers |-> <<2, 4, 13, 54, 20680, 76, 12, 6, 4, 3, 2, 1, 1, 1, 1, 1>>,
      total_power |-> 20862],
     [samples |-> <<Run(5, FALSE, 0, 980)>>,
      powers |-> <<15, 21, 44, 92, 309, 14825, 226, 73, 35, 21, 13, 8, 6, 5, 4, 3>>,
      total_power |-> 15699],
     [samples |-> <<Run(6, FALSE, 0, 980)>>,
      powers |-> <<18, 23, 37, 60, 117, 350, 10617, 332, 95, 43, 24, 12, 8, 6, 4, 3>>,
      total_power |-> 11749],
     [samples |-> <<Run(7, FALSE, 0, 980)>>,
      powers |-> <<4, 5, 8, 12, 20, 40, 287, 18312, 183, 51, 23, 11, 7, 5, 4, 3>>,
      total_power |-> 18975],
     [samples |-> <<Run(8, FALSE, 0, 980)>>,
      powers |-> <<0, 0, 0, 0, 0, 0, 0, 0, 21609, 0, 0, 0, 0, 0, 0, 0>>,
      total_power |-> 21609],
     [samples |-> <<Run(9, FALSE, 0, 980)>>,
      powers |-> <<2, 2, 3, 5, 6, 10, 22, 49, 179, 18277, 292, 42, 21, 13, 9, 5>>,
      total_power |-> 18935],
     [samples |-> <<Run(10, FALSE, 0, 980)>>,
      powers |-> <<7, 8, 10, 12, 16, 20, 35, 58, 117, 372, 10838, 311, 94, 44, 25, 13>>,
      total_power |-> 11982],
     [samples |-> <<Run(11, FALSE, 0, 980)>>,
      powers |-> <<4, 5, 6, 7, 9, 11, 17, 25, 41, 82, 241, 14701, 291, 82, 37, 16>>,
      total_power |-> 15578],
     [samples |-> <<Run(12, FALSE, 0, 980)>>,
      powers |-> <<0, 0, 0, 1, 1, 1, 1, 2, 3, 5, 10, 70, 20771, 59, 16, 5>>,
      total_power |-> 20946],
     [samples |-> <<Run(13, FALSE, 0, 980)>>,
      powers |-> <<0, 0, 0, 0, 0, 1, 1, 1, 2, 3, 4, 14, 55, 20703, 74, 12>>,
      total_power |-> 20870],
     [samples |-> <<Run(14, FALSE, 0, 980)>>,
      powers |-> <<2, 2, 3, 3, 4, 5, 6, 8, 10, 14, 20, 42, 89, 304, 14796, 229>>,
      total_power |-> 15536],
     [samples |-> <<Run(15, FALSE, 0, 980)>>,
      powers |-> <<4, 4, 5, 5, 6, 7, 8, 10, 12, 15, 20, 34, 56, 111, 341, 10663>>,
      total_power |-> 11300],
     [samples |-> <<Run(Sweep, FALSE, 0, 980)>>,
      powers |-> <<5894, 1101, 89, 39, 21, 13, 7, 5, 4, 3, 2, 2, 1, 1, 1, 1>>,
      total_power |-> 7184],
     [samples |-> <<Run(Sweep, FALSE, 980, 980)>>,
      powers |-> <<1166, 3702, 107, 41, 21, 12, 6, 4, 3, 2, 2, 1, 1, 1, 1, 1>>,
      total_power |-> 5071],
     [samples |-> <<Run(Sweep, FALSE, 1960, 980)>>,
      powers |-> <<44, 20562, 18, 6, 3, 2, 1, 1, 1, 1, 0, 0, 0, 0, 0, 0>>,
      total_power |-> 20640],
     [samples |-> <<Run(Sweep, FALSE, 2940, 980)>>,
      powers |-> <<89, 1258, 166, 42, 19, 11, 6, 4, 3, 3, 2, 2, 1, 1, 1, 1>>,
      total_power |-> 1610],
     [samples |-> <<Run(Sweep, FALSE, 3920, 980)>>,
      powers |-> <<158, 926, 1180, 196, 80, 44, 24, 17, 13, 10, 9, 7, 6, 5, 4, 4>>,
      total_power |-> 2683],
     [samples |-> <<Run(Sweep, FALSE, 4900, 980)>>,
      powers |-> <<65, 263, 3046, 220, 76, 39, 20, 14, 11, 9, 7, 5, 5, 4, 4, 3>>,
      total_power |-> 3790],
     [samples |-> <<Run(Sweep, FALSE, 5880, 980)>>,
      powers |-> <<2, 8, 20883, 28, 3, 1, 0, 0, 0, 0, 0, 0, 0, 0, 0, 0>>,
      total_power |-> 20925],
     [samples |-> <<Run(Sweep, FALSE, 6860, 980)>>,
      powers |-> <<24, 60, 1666, 855, 97, 37, 16, 10, 7, 6, 4, 3, 3, 2, 2, 2>>,
      total_power |-> 2793],
     [samples |-> <<Run(Sweep, FALSE, 7840, 980)>>,
      powers |-> <<65, 127, 1095, 9135, 342, 95, 31, 18, 12, 8, 6, 4, 3, 2, 2, 1>>,
      total_power |-> 10946],
     [samples |-> <<Run(Sweep, FALSE, 8820, 980)>>,
      powers |-> <<22, 42, 248, 16694, 426, 87, 27, 16, 11, 8, 6, 4, 3, 3, 2, 2>>,
      total_power |-> 17602],
     [samples |-> <<Run(Sweep, FALSE, 9800, 980)>>,
      powers |-> <<0, 0, 4, 295, 295, 4, 0, 0, 0, 0, 0, 0, 0, 0, 0, 0>>,
      total_power |-> 598],
     [samples |-> <<Run(Sweep, FALSE, 10780, 980)>>,
      powers |-> <<15, 25, 83, 410, 16828, 249, 43, 23, 14, 10, 7, 5, 4, 3, 3, 2>>,
      total_power |-> 17723],
     [samples |-> <<Run(Sweep, FALSE, 11760, 980)>>,
      powers |-> <<33, 50, 127, 399, 9372, 999, 95, 43, 24, 15, 10, 6, 4, 3, 3, 2>>,
      total_power |-> 11185],
     [samples |-> <<Run(Sweep, FALSE, 12740, 980)>>,
      powers |-> <<7, 12, 31, 87, 831, 1740, 70, 30, 17, 11, 8, 5, 4, 3, 3, 2>>,
      total_power |-> 2862],
     [samples |-> <<Run(Sweep, FALSE, 13720, 980)>>,
      powers |-> <<0, 0, 1, 3, 27, 20869, 7, 2, 1, 0, 0, 0, 0, 0, 0, 0>>,
      total_power |-> 20911],
     [samples |-> <<Run(Sweep, FALSE, 14700, 980)>>,
      powers |-> <<6, 10, 25, 55, 185, 2941, 307, 88, 42, 25, 17, 11, 9, 7, 6, 4>>,
      total_power |-> 3738],
     [samples |-> <<Run(Sweep, FALSE, 15680, 980)>>,
      powers |-> <<11, 16, 34, 66, 173, 1119, 987, 182, 76, 42, 27, 16, 12, 10, 8, 6>>,
      total_power |-> 2784],
     [samples |-> <<Run(Sweep, FALSE, 16660, 980)>>,
      powers |-> <<4, 5, 9, 17, 38, 155, 1215, 89, 30, 15, 9, 5, 4, 3, 2, 2>>,
      total_power |-> 1601],
     [samples |-> <<Run(Sweep, FALSE, 17640, 980)>>,
      powers |-> <<0, 1, 1, 2, 5, 17, 20613, 49, 9, 4, 2, 1, 1, 1, 1, 0>>,
      total_power |-> 20708],
     [samples |-> <<Run(Sweep, FALSE, 18620, 980)>>,
      powers |-> <<12, 15, 23, 35, 61, 138, 3855, 1070, 140, 51, 25, 12, 8, 6, 4, 3>>,
      total_power |-> 5457],
     [samples |-> <<Run(Sweep, FALSE, 19600, 980)>>,
      powers |-> <<13, 16, 25, 36, 58, 118, 1200, 5634, 291, 86, 40, 17, 11, 8, 6, 4>>,
      total_power |-> 7563],
     [samples |-> <<Run(Sweep, FALSE, 20580, 980)>>,
      powers |-> <<1, 2, 3, 4, 8, 16, 113, 19440, 158, 34, 15, 7, 5, 3, 3, 2>>,
      total_power |-> 19812],
     [samples |-> <<Run(Sweep, FALSE, 21560, 980)>>,
      powers |-> <<1, 1, 1, 2, 4, 7, 33, 590, 488, 31, 11, 4, 3, 2, 2, 1>>,
      total_power |-> 1181],
     [samples |-> <<Run(Sweep, FALSE, 22540, 980)>>,
      powers |-> <<8, 10, 14, 19, 28, 47, 151, 774, 13028, 339, 94, 32, 19, 13, 9, 6>>,
      total_power |-> 14591],
     [samples |-> <<Run(Sweep, FALSE, 23520, 980)>>,
      powers |-> <<8, 9, 13, 17, 24, 38, 104, 357, 13242, 736, 137, 39, 23, 15, 10, 7>>,
      total_power |-> 14777],
     [samples |-> <<Run(Sweep, FALSE, 24500, 980)>>,
      powers |-> <<1, 1, 1, 1, 2, 4, 10, 30, 484, 608, 37, 8, 5, 3, 2, 1>>,
      total_power |-> 1198],
     [samples |-> <<Run(Sweep, FALSE, 25480, 980)>>,
      powers |-> <<1, 1, 1, 2, 3, 5, 12, 29, 146, 19574, 120, 19, 10, 6, 4, 3>>,
      total_power |-> 19935],
     [samples |-> <<Run(Sweep, FALSE, 26460, 980)>>,
      powers |-> <<8, 9, 12, 15, 20, 28, 54, 107, 330, 5814, 1127, 96, 43, 24, 15, 9>>,
      total_power |-> 7710],
     [samples |-> <<Run(Sweep, FALSE, 27440, 980)>>,
      powers |-> <<6, 7, 9, 12, 15, 20, 37, 66, 165, 1138, 3749, 115, 45, 24, 14, 8>>,
      total_power |-> 5430],
     [samples |-> <<Run(Sweep, FALSE, 28420, 980)>>,
      powers |-> <<0, 0, 0, 0, 1, 1, 2, 3, 8, 45, 20579, 18, 6, 3, 2, 1>>,
      total_power |-> 20668],
     [samples |-> <<Run(Sweep, FALSE, 29400, 980)>>,
      powers |-> <<1, 2, 2, 3, 3, 5, 9, 14, 29, 89, 1247, 162, 40, 18, 10, 6>>,
      total_power |-> 1641],
     [samples |-> <<Run(Sweep, FALSE, 30380, 980)>>,
      powers |-> <<3, 3, 5, 6, 8, 11, 20, 34, 64, 163, 939, 1167, 192, 77, 42, 22>>,
      total_power |-> 2756],
     [samples |-> <<Run(Sweep, FALSE, 31360, 980)>>,
      powers |-> <<1, 1, 2, 3, 4, 6, 10, 17, 31, 70, 274, 3021, 212, 71, 36, 18>>,
      total_power |-> 3776],
     [samples |-> <<Run(Sweep, FALSE, 32340, 980)>>,
      powers |-> <<0, 0, 0, 0, 0, 0, 0, 0, 1, 2, 7, 20877, 28, 3, 1, 0>>,
      total_power |-> 20921],
     [samples |-> <<Run(Sweep, FALSE, 33320, 980)>>,
      powers |-> <<1, 1, 2, 2, 2, 3, 5, 8, 13, 25, 62, 1681, 850, 95, 36, 15>>,
      total_power |-> 2802],
     [samples |-> <<Run(Sweep, FALSE, 34300, 980)>>,
      powers |-> <<6, 6, 8, 9, 10, 13, 18, 25, 36, 59, 119, 1072, 9193, 353, 101, 34>>,
      total_power |-> 11061],
     [samples |-> <<Run(Sweep, FALSE, 35280, 980)>>,
      powers |-> <<2, 2, 2, 3, 3, 4, 6, 9, 13, 22, 42, 247, 16713, 424, 87, 27>>,
      total_power |-> 17606],
     [samples |-> <<Run(Sweep, FALSE, 36260, 980)>>,
      powers |-> <<0, 0, 0, 0, 0, 0, 0, 0, 0, 0, 0, 4, 295, 295, 4, 0>>,
      total_power |-> 598],
     [samples |-> <<Run(Sweep, FALSE, 37240, 980)>>,
      powers |-> <<1, 2, 2, 2, 3, 4, 5, 7, 10, 15, 25, 83, 412, 16810, 249, 43>>,
      total_power |-> 17672],
     [samples |-> <<Run(Sweep, FALSE, 38220, 980)>>,
      powers |-> <<5, 5, 6, 7, 8, 9, 12, 16, 21, 29, 45, 120, 387, 9321, 1016, 100>>,
      total_power |-> 11108],
     [samples |-> <<Run(Sweep, FALSE, 39200, 980)>>,
      powers |-> <<1, 1, 1, 1, 2, 2, 3, 4, 5, 8, 12, 32, 89, 834, 1729, 69>>,
      total_power |-> 2792],
     [samples |-> <<Run(Sweep, FALSE, 40180, 980)>>,
      powers |-> <<0, 0, 0, 0, 0, 0, 0, 0, 0, 0, 0, 1, 3, 27, 20872, 7>>,
      total_power |-> 20912],
     [samples |-> <<Run(Sweep, FALSE, 41160, 980)>>,
      powers |-> <<0, 1, 1, 1, 1, 2, 3, 4, 5, 8, 12, 27, 59, 190, 2956, 300>>,
      total_power |-> 3571],
     [samples |-> <<Run(Sweep, FALSE, 42140, 980)>>,
      powers |-> <<1, 2, 2, 2, 3, 4, 5, 6, 9, 12, 17, 35, 68, 176, 1127, 978>>,
      total_power |-> 2448],
     [samples |-> <<Run(Sweep, FALSE, 43120, 980)>>,
      powers |-> <<1, 1, 1, 1, 1, 1, 2, 2, 3, 4, 5, 10, 17, 38, 157, 1223>>,
      total_power |-> 1466],
     [samples |-> <<Run(Sweep, FALSE, 44100, 980)>>,
      powers |-> <<0, 0, 0, 0, 0, 0, 0, 0, 0, 1, 1, 1, 2, 5, 17, 20607>>,
      total_power |-> 20636],
     [samples |-> <<Run(Sweep, FALSE, 45080, 980)>>,
      powers |-> <<3, 3, 3, 4, 4, 5, 6, 7, 8, 10, 13, 21, 32, 57, 133, 3830>>,
      total_power |-> 4140],
     [samples |-> <<Run(Sweep, FALSE, 46060, 980)>>,
      powers |-> <<3, 4, 4, 4, 5, 5, 7, 8, 9, 11, 14, 22, 33, 55, 113, 1186>>,
      total_power |-> 1484],
     [samples |-> <<Run(Sweep, FALSE, 47040, 980)>>,
      powers |-> <<0, 0, 0, 0, 0, 0, 1, 1, 1, 1, 2, 3, 5, 8, 16, 114>>,
      total_power |-> 153],
     [samples |-> <<Run(Sweep, FALSE, 48020, 980)>>,
      powers |-> <<0, 0, 0, 0, 0, 0, 0, 0, 1, 1, 1, 2, 2, 4, 7, 34>>,
      total_power |-> 52],
     [samples |-> <<Run(Sweep, FALSE, 49000, 980)>>,
      powers |-> <<2, 2, 3, 3, 3, 4, 4, 5, 6, 7, 9, 13, 18, 27, 45, 148>>,
      total_power |-> 301],
     [samples |-> <<Run(Sweep, FALSE, 49980, 980)>>,
      powers |-> <<2, 2, 3, 3, 3, 3, 4, 5, 6, 7, 8, 12, 16, 23, 37, 102>>,
      total_power |-> 235],
     [samples |-> <<Run(Sweep, FALSE, 50960, 980)>>,
      powers |-> <<0, 0, 0, 0, 0, 0, 0, 0, 0, 1, 1, 1, 2, 2, 4, 10>>,
      total_power |-> 22],
     [samples |-> <<Run(Sweep, FALSE, 51940, 980)>>,
      powers |-> <<0, 0, 0, 0, 0, 0, 0, 1, 1, 1, 1, 2, 2, 3, 5, 12>>,
      total_power |-> 29],
     [samples |-> <<Run(Sweep, FALSE, 52920, 980)>>,
      powers |-> <<3, 3, 3, 3, 4, 4, 5, 5, 6, 7, 8, 11, 14, 18, 26, 52>>,
      total_power |-> 169],
     [samples |-> <<Run(Sweep, FALSE, 53900, 980)>>,
      powers |-> <<2, 2, 2, 3, 3, 3, 4, 4, 5, 5, 6, 8, 10, 13, 18, 35>>,
      total_power |-> 124],
     [samples |-> <<Run(Sweep, FALSE, 54880, 980)>>,
      powers |-> <<0, 0, 0, 0, 0, 0, 0, 0, 0, 0, 0, 0, 0, 1, 1, 2>>,
      total_power |-> 5],
     [samples |-> <<Run(Sweep, FALSE, 55860, 980)>>,
      powers |-> <<0, 0, 0, 1, 1, 1, 1, 1, 1, 1, 2, 2, 3, 3, 5, 8>>,
      total_power |-> 30],
     [samples |-> <<Run(Sweep, FALSE, 56840, 980)>>,
      powers |-> <<1, 1, 1, 1, 1, 1, 2, 2, 2, 3, 4, 5, 7, 9, 12, 21>>,
      total_power |-> 73],
     [samples |-> <<Run(Sweep, FALSE, 57820, 980)>>,
      powers |-> <<0, 0, 0, 0, 0, 1, 1, 1, 1, 1, 2, 3, 3, 5, 6, 11>>,
      total_power |-> 36],
     [samples |-> <<Run(Sweep, FALSE, 58800, 980)>>,
      powers |-> <<0, 0, 0, 0, 0, 0, 0, 0, 0, 0, 0, 0, 0, 0, 0, 0>>,
      total_power |-> 1],
     [samples |-> <<Run(Sweep, FALSE, 59780, 980)>>,
      powers |-> <<0, 0, 0, 0, 0, 1, 1, 1, 1, 1, 1, 2, 2, 3, 4, 6>>,
      total_power |-> 23],
     [samples |-> <<Run(Sweep, FALSE, 60760, 980)>>,
      powers |-> <<2, 2, 3, 3, 3, 3, 4, 4, 4, 5, 5, 7, 8, 9, 11, 17>>,
      total_power |-> 90],
     [samples |-> <<Run(Sweep, FALSE, 61740, 980)>>,
      powers |-> <<1, 1, 1, 1, 1, 1, 1, 1, 1, 2, 2, 2, 3, 3, 4, 6>>,
      total_power |-> 31],
     [samples |-> <<Run(Sweep, FALSE, 62720, 980)>>,
      powers |-> <<0, 0, 0, 0, 0, 0, 0, 0, 0, 0, 0, 0, 0, 0, 0, 0>>,
      total_power |-> 0],
     [samples |-> <<Run(Sweep, FALSE, 63700, 980)>>,
      powers |-> <<1, 1, 1, 1, 1, 1, 1, 1, 1, 1, 2, 2, 2, 3, 4, 5>>,
      total_power |-> 26],
     [samples |-> <<Run(Sweep, FALSE, 64680, 980)>>,
      powers |-> <<2, 2, 2, 2, 3, 3, 3, 3, 4, 4, 4, 5, 6, 7, 8, 11>>,
      total_power |-> 71],
     [samples |-> <<Run(Sweep, FALSE, 65660, 980)>>,
      powers |-> <<0, 0, 0, 0, 0, 0, 1, 1, 1, 1, 1, 1, 1, 2, 2, 3>>,
      total_power |-> 15],
     [samples |-> <<Run(Sweep, FALSE, 66640, 980)>>,
      powers |-> <<0, 0, 0, 0, 0, 0, 0, 0, 0, 0, 0, 0, 0, 0, 0, 0>>,
      total_power |-> 1],
     [samples |-> <<Run(Sweep, FALSE, 67620, 980)>>,
      powers |-> <<0, 0, 0, 0, 0, 0, 0, 1, 1, 1, 1, 1, 1, 2, 2, 3>>,
      total_power |-> 14],
     [samples |-> <<Run(Sweep, FALSE, 68600, 980)>>,
      powers |-> <<1, 1, 1, 1, 1, 1, 1, 1, 1, 2, 2, 2, 3, 3, 4, 5>>,
      total_power |-> 28],
     [samples |-> <<Run(Sweep, FALSE, 69580, 980)>>,
      powers |-> <<0, 0, 0, 0, 0, 0, 0, 0, 1, 1, 1, 1, 1, 1, 1, 2>>,
      total_power |-> 10],
     [samples |-> <<Run(Sweep, FALSE, 70560, 980)>>,
      powers |-> <<0, 0, 0, 0, 0, 0, 0, 0, 0, 0, 0, 0, 0, 0, 0, 0>>,
      total_power |-> 1],
     [samples |-> <<Run(Sweep, FALSE, 71540, 980)>>,
      powers |-> <<1, 1, 1, 2, 2, 2, 2, 2, 2, 2, 3, 3, 3, 4, 4, 5>>,
      total_power |-> 39],
     [samples |-> <<Run(Sweep, FALSE, 72520, 980)>>,
      powers |-> <<2, 2, 2, 2, 2, 2, 2, 2, 2, 3, 3, 3, 4, 4, 5, 6>>,
      total_power |-> 45],
     [samples |-> <<Run(Sweep, FALSE, 73500, 980)>>,
      powers |-> <<0, 0, 0, 0, 0, 0, 0, 0, 0, 0, 0, 0, 0, 0, 1, 1>>,
      total_power |-> 4],
     [samples |-> <<Run(Sweep, FALSE, 74480, 980)>>,
      powers |-> <<0, 0, 0, 0, 0, 0, 0, 0, 0, 0, 0, 0, 0, 0, 0, 0>>,
      total_power |-> 2],
     [samples |-> <<Run(Sweep, FALSE, 75460, 980)>>,
      powers |-> <<1, 1, 1, 1, 1, 1, 1, 2, 2, 2, 2, 2, 3, 3, 3, 4>>,
      total_power |-> 31],
     [samples |-> <<Run(Sweep, FALSE, 76440, 980)>>,
      powers |-> <<1, 1, 1, 1, 1, 1, 1, 2, 2, 2, 2, 2, 2, 3, 3, 4>>,
      total_power |-> 29],
     [samples |-> <<Run(Sweep, FALSE, 77420, 980)>>,
      powers |-> <<0, 0, 0, 0, 0, 0, 0, 0, 0, 0, 0, 0, 0, 0, 0, 0>>,
      total_power |-> 2],
     [samples |-> <<Run(Sweep, FALSE, 78400, 980)>>,
      powers |-> <<0, 0, 0, 0, 0, 0, 0, 0, 0, 0, 0, 0, 0, 0, 0, 0>>,
      total_power |-> 3],
     [samples |-> <<Run(Sweep, FALSE, 79380, 980)>>,
      powers |-> <<1, 1, 1, 2, 2, 2, 2, 2, 2, 2, 2, 3, 3, 3, 3, 4>>,
      total_power |-> 35],
     [samples |-> <<Run(Sweep, FALSE, 80360, 980)>>,
      powers |-> <<1, 1, 1, 1, 1, 1, 1, 2, 2, 2, 2, 2, 2, 2, 3, 3>>,
      total_power |-> 28],
     [samples |-> <<Run(Sweep, FALSE, 81340, 980)>>,
      powers |-> <<0, 0, 0, 0, 0, 0, 0, 0, 0, 0, 0, 0, 0, 0, 0, 0>>,
      total_power |-> 1],
     [samples |-> <<Run(Sweep, FALSE, 82320, 980)>>,
      powers |-> <<0, 0, 0, 0, 0, 0, 0, 0, 0, 0, 0, 0, 0, 1, 1, 1>>,
      total_power |-> 6],
     [samples |-> <<Run(Sweep, FALSE, 83300, 980)>>,
      powers |-> <<0, 0, 0, 0, 1, 1, 1, 1, 1, 1, 1, 1, 1, 1, 2, 2>>,
      total_power |-> 14],
     [samples |-> <<Run(Sweep, FALSE, 84280, 980)>>,
      powers |-> <<0, 0, 0, 0, 0, 0, 0, 0, 0, 0, 0, 0, 1, 1, 1, 1>>,
      total_power |-> 5],
     [samples |-> <<Run(Sweep, FALSE, 85260, 980)>>,
      powers |-> <<0, 0, 0, 0, 0, 0, 0, 0, 0, 0, 0, 0, 0, 0, 0, 0>>,
      total_power |-> 0],
     [samples |-> <<Run(Sweep, FALSE, 86240, 980)>>,
      powers |-> <<0, 0, 0, 0, 0, 0, 0, 0, 0, 0, 0, 0, 0, 1, 1, 1>>,
      total_power |-> 5],
     [samples |-> <<Run(Sweep, FALSE, 87220, 980)>>,
      powers |-> <<1, 1, 1, 1, 1, 2, 2, 2, 2, 2, 2, 2, 2, 3, 3, 3>>,
      total_power |-> 30],
     [samples |-> <<Run(0, TRUE, 0, 500), Run(Silent, FALSE, 0, 480)>>,
      powers |-> <<4931, 116, 71, 31, 16, 9, 6, 5, 4, 3, 2, 1, 1, 1, 1, 1>>,
      total_power |-> 5199],
     [samples |-> <<Run(1, TRUE, 0, 500), Run(Silent, FALSE, 0, 480)>>,
      powers |-> <<119, 4408, 152, 37, 13, 5, 9, 6, 4, 3, 2, 0, 0, 0, 0, 0>>,
      total_power |-> 4758],
     [samples |-> <<Run(2, TRUE, 0, 500), Run(Silent, FALSE, 0, 480)>>,
      powers |-> <<50, 189, 4600, 58, 9, 1, 20, 12, 7, 5, 3, 1, 1, 1, 1, 1>>,
      total_power |-> 4958],
     [samples |-> <<Run(3, TRUE, 0, 500), Run(Silent, FALSE, 0, 480)>>,
      powers |-> <<27, 66, 42, 5026, 3, 0, 42, 23, 14, 9, 6, 3, 2, 2, 2, 1>>,
      total_power |-> 5267],
     [samples |-> <<Run(4, TRUE, 0, 500), Run(Silent, FALSE, 0, 480)>>,
      powers |-> <<21, 37, 0, 4, 5083, 37, 77, 35, 18, 10, 6, 3, 3, 2, 2, 1>>,
      total_power |-> 5338],
     [samples |-> <<Run(5, TRUE, 0, 500), Run(Silent, FALSE, 0, 480)>>,
      powers |-> <<16, 24, 3, 12, 67, 4687, 185, 49, 18, 8, 4, 5, 4, 3, 2, 0>>,
      total_power |-> 5087],
     [samples |-> <<Run(6, TRUE, 0, 500), Run(Silent, FALSE, 0, 480)>>,
      powers |-> <<8, 12, 4, 11, 34, 148, 4315, 104, 21, 6, 2, 13, 8, 6, 4, 1>>,
      total_power |-> 4696],
     [samples |-> <<Run(7, TRUE, 0, 500), Run(Silent, FALSE, 0, 480)>>,
      powers |-> <<3, 4, 5, 11, 24, 60, 118, 4908, 27, 3, 1, 24, 15, 10, 6, 2>>,
      total_power |-> 5219],
     [samples |-> <<Run(8, TRUE, 0, 500), Run(Silent, FALSE, 0, 480)>>,
      powers |-> <<2, 2, 7, 12, 20, 38, 4, 4, 5124, 4, 4, 36, 19, 11, 7, 2>>,
      total_power |-> 5295],
     [samples |-> <<Run(9, TRUE, 0, 500), Run(Silent, FALSE, 0, 480)>>,
      powers |-> <<2, 2, 7, 10, 15, 24, 0, 3, 26, 4893, 120, 60, 24, 11, 5, 5>>,
      total_power |-> 5207],
     [samples |-> <<Run(10, TRUE, 0, 500), Run(Silent, FALSE, 0, 480)>>,
      powers |-> <<1, 1, 3, 5, 8, 12, 2, 6, 21, 104, 4316, 151, 36, 12, 5, 12>>,
      total_power |-> 4693],
     [samples |-> <<Run(11, TRUE, 0, 500), Run(Silent, FALSE, 0, 480)>>,
      powers |-> <<0, 0, 2, 3, 4, 5, 4, 8, 19, 50, 189, 4687, 67, 12, 3, 22>>,
      total_power |-> 5077],
     [samples |-> <<Run(12, TRUE, 0, 500), Run(Silent, FALSE, 0, 480)>>,
      powers |-> <<1, 1, 2, 3, 3, 4, 6, 10, 18, 35, 77, 39, 5060, 3, 0, 37>>,
      total_power |-> 5298],
     [samples |-> <<Run(13, TRUE, 0, 500), Run(Silent, FALSE, 0, 480)>>,
      powers |-> <<1, 1, 2, 2, 2, 2, 5, 8, 13, 22, 40, 0, 2, 5018, 43, 70>>,
      total_power |-> 5232],
     [samples |-> <<Run(14, TRUE, 0, 500), Run(Silent, FALSE, 0, 480)>>,
      powers |-> <<0, 0, 1, 1, 1, 1, 3, 5, 7, 12, 19, 2, 10, 61, 4629, 193>>,
      total_power |-> 4943],
     [samples |-> <<Run(15, TRUE, 0, 500), Run(Silent, FALSE, 0, 480)>>,
      powers |-> <<0, 0, 0, 0, 0, 0, 2, 3, 5, 7, 10, 6, 14, 38, 155, 4378>>,
      total_power |-> 4618],
     [samples |-> <<Run(0, TRUE, 0, 104), Run(0, TRUE, 616, 364), Run(15, TRUE, 0, 148), Run(15, TRUE, 660, 320), Run(0, TRUE, 0, 44)>>,
      powers |-> <<1989, 976, 261, 65, 13, 45, 2, 9, 8, 5, 6, 8, 23, 5, 47, 3513>>,
      total_power |-> 6975],
     [samples |-> <<Run(0, TRUE, 0, 104), Run(0, TRUE, 616, 364), Run(15, TRUE, 0, 512)>>,
      powers |-> <<2076, 799, 319, 121, 10, 12, 22, 22, 5, 0, 8, 18, 14, 51, 223, 4359>>,
      total_power |-> 8059],
     [samples |-> <<Run(0, TRUE, 0, 104), Run(15, TRUE, 148, 832), Run(0, TRUE, 0, 44)>>,
      powers |-> <<221, 209, 76, 23, 20, 22, 1, 8, 14, 16, 22, 2, 61, 64, 36, 9191>>,
      total_power |-> 9985],
     [samples |-> <<Run(0, TRUE, 512, 104), Run(15, TRUE, 148, 832), Run(0, TRUE, 0, 44)>>,
      powers |-> <<217, 133, 55, 25, 8, 4, 7, 6, 4, 2, 5, 4, 50, 60, 23, 9435>>,
      total_power |-> 10038],
     [samples |-> <<Run(5, TRUE, 0, 104), Run(5, TRUE, 616, 364), Run(6, TRUE, 0, 148), Run(6, TRUE, 660, 320), Run(7, TRUE, 0, 44)>>,
      powers |-> <<3, 1, 253, 208, 9, 4291, 86, 2415, 909, 24, 83, 19, 17, 7, 9, 2>>,
      total_power |-> 8335],
     [samples |-> <<Run(5, TRUE, 0, 104), Run(5, TRUE, 616, 364), Run(6, TRUE, 0, 512)>>,
      powers |-> <<8, 23, 163, 387, 394, 2551, 6173, 815, 264, 25, 7, 12, 4, 1, 8, 4>>,
      total_power |-> 10840],
     [samples |-> <<Run(5, TRUE, 0, 104), Run(6, TRUE, 148, 832), Run(7, TRUE, 0, 44)>>,
      powers |-> <<0, 3, 81, 169, 91, 238, 7200, 118, 212, 57, 0, 8, 5, 4, 0, 10>>,
      total_power |-> 8195],
     [samples |-> <<Run(5, TRUE, 512, 104), Run(6, TRUE, 148, 832), Run(7, TRUE, 0, 44)>>,
      powers |-> <<15, 5, 64, 315, 519, 120, 11242, 59, 150, 77, 0, 34, 22, 11, 1, 13>>,
      total_power |-> 12647],
     [samples |-> <<Run(0, TRUE, 0, 120), Run(0, TRUE, 632, 348), Run(10, TRUE, 0, 164), Run(10, TRUE, 676, 304), Run(Silent, FALSE, 0, 44)>>,
      powers |-> <<1732, 899, 425, 88, 27, 27, 48, 62, 134, 577, 1314, 333, 209, 0, 69, 14>>,
      total_power |-> 5959],
     [samples |-> <<Run(0, TRUE, 0, 120), Run(0, TRUE, 632, 348), Run(10, TRUE, 0, 164), Run(10, TRUE, 676, 304), Run(10, TRUE, 0, 44)>>,
      powers |-> <<1867, 894, 503, 91, 17, 60, 54, 30, 144, 708, 1269, 393, 298, 7, 73, 13>>,
      total_power |-> 6421],
     [samples |-> <<Run(0, TRUE, 0, 120), Run(0, TRUE, 632, 348), Run(10, TRUE, 0, 512)>>,
      powers |-> <<1696, 1008, 383, 81, 9, 52, 7, 22, 86, 165, 4215, 250, 44, 11, 25, 3>>,
      total_power |-> 8056],
     [samples |-> <<Run(0, TRUE, 0, 120), Run(10, TRUE, 164, 816), Run(Silent, FALSE, 0, 44)>>,
      powers |-> <<226, 223, 94, 25, 6, 4, 30, 3, 91, 8, 8898, 5, 92, 27, 7, 9>>,
      total_power |-> 9749],
     [samples |-> <<Run(0, TRUE, 0, 120), Run(10, TRUE, 164, 816), Run(10, TRUE, 0, 44)>>,
      powers |-> <<224, 270, 123, 15, 3, 14, 12, 21, 152, 28, 8891, 2, 152, 59, 1, 17>>,
      total_power |-> 9982],
     [samples |-> <<Run(0, TRUE, 512, 120), Run(10, TRUE, 164, 816), Run(Silent, FALSE, 0, 44)>>,
      powers |-> <<329, 301, 106, 29, 2, 41, 25, 19, 99, 5, 9347, 18, 50, 22, 2, 11>>,
      total_power |-> 10407],
     [samples |-> <<Run(0, TRUE, 512, 120), Run(10, TRUE, 164, 816), Run(10, TRUE, 0, 44)>>,
      powers |-> <<375, 308, 69, 19, 13, 29, 5, 54, 151, 3, 9342, 10, 93, 53, 4, 10>>,
      total_power |-> 10536],
     [samples |-> <<Run(1, TRUE, 0, 120), Run(1, TRUE, 632, 348), Run(0, TRUE, 0, 164), Run(0, TRUE, 676, 304), Run(12, TRUE, 0, 44)>>,
      powers |-> <<2209, 1068, 693, 106, 41, 5, 27, 7, 20, 34, 6, 2, 22, 35, 5, 1>>,
      total_power |-> 4281],
     [samples |-> <<Run(1, TRUE, 0, 120), Run(1, TRUE, 632, 348), Run(0, TRUE, 0, 512)>>,
      powers |-> <<5231, 4153, 550, 304, 55, 5, 11, 8, 0, 7, 8, 3, 0, 2, 4, 1>>,
      total_power |-> 10342],
     [samples |-> <<Run(1, TRUE, 0, 120), Run(0, TRUE, 164, 816), Run(12, TRUE, 0, 44)>>,
      powers |-> <<15621, 154, 236, 134, 19, 20, 5, 2, 2, 16, 19, 3, 11, 15, 6, 7>>,
      total_power |-> 16269],
     [samples |-> <<Run(1, TRUE, 512, 120), Run(0, TRUE, 164, 816), Run(12, TRUE, 0, 44)>>,
      powers |-> <<14044, 1098, 164, 18, 3, 2, 2, 1, 0, 2, 2, 6, 7, 6, 7, 9>>,
      total_power |-> 15372],
     [samples |-> <<Run(15, TRUE, 0, 148), Run(15, TRUE, 660, 320), Run(0, TRUE, 0, 192), Run(0, TRUE, 704, 276), Run(15, TRUE, 0, 44)>>,
      powers |-> <<1065, 1280, 90, 57, 26, 20, 36, 6, 6, 12, 6, 16, 53, 20, 31, 3450>>,
      total_power |-> 6173],
     [samples |-> <<Run(15, TRUE, 0, 148), Run(15, TRUE, 660, 320), Run(0, TRUE, 0, 512)>>,
      powers |-> <<5092, 96, 76, 34, 19, 14, 1, 2, 4, 3, 1, 13, 12, 0, 53, 3693>>,
      total_power |-> 9111],
     [samples |-> <<Run(15, TRUE, 0, 148), Run(0, TRUE, 192, 788), Run(15, TRUE, 0, 44)>>,
      powers |-> <<11888, 630, 61, 23, 19, 34, 8, 21, 6, 4, 37, 11, 34, 185, 275, 231>>,
      total_power |-> 13467],
     [samples |-> <<Run(15, TRUE, 512, 148), Run(0, TRUE, 192, 788), Run(15, TRUE, 0, 44)>>,
      powers |-> <<12053, 627, 55, 15, 31, 53, 7, 37, 25, 1, 41, 39, 10, 155, 341, 344>>,
      total_power |-> 13833],
     [samples |-> <<Run(6, TRUE, 0, 148), Run(6, TRUE, 660, 320), Run(7, TRUE, 0, 192), Run(7, TRUE, 704, 276), Run(8, TRUE, 0, 44)>>,
      powers |-> <<8, 22, 33, 171, 612, 367, 1053, 3457, 1902, 60, 93, 2, 4, 15, 16, 24>>,
      total_power |-> 7841],
     [samples |-> <<Run(6, TRUE, 0, 148), Run(6, TRUE, 660, 320), Run(7, TRUE, 0, 512)>>,
      powers |-> <<4, 55, 25, 42, 541, 702, 968, 10205, 502, 1, 47, 3, 21, 32, 3, 7>>,
      total_power |-> 13158],
     [samples |-> <<Run(6, TRUE, 0, 148), Run(7, TRUE, 192, 788), Run(8, TRUE, 0, 44)>>,
      powers |-> <<4, 8, 20, 43, 29, 38, 1177, 13207, 171, 56, 1, 0, 2, 3, 5, 8>>,
      total_power |-> 14772],
     [samples |-> <<Run(6, TRUE, 512, 148), Run(7, TRUE, 192, 788), Run(8, TRUE, 0, 44)>>,
      powers |-> <<6, 10, 87, 14, 204, 775, 202, 13722, 329, 126, 21, 23, 15, 4, 15, 4>>,
      total_power |-> 15557],
     [samples |-> <<Run(0, TRUE, 0, 16), Run(0, TRUE, 528, 452), Run(15, TRUE, 0, 512)>>,
      powers |-> <<4056, 257, 5, 4, 8, 9, 3, 5, 6, 6, 8, 21, 34, 67, 203, 4459>>,
      total_power |-> 9151],
     [samples |-> <<Run(0, TRUE, 0, 16), Run(0, TRUE, 528, 452), Run(15, TRUE, 0, 60), Run(15, TRUE, 572, 408), Run(0, TRUE, 0, 44)>>,
      powers |-> <<3834, 331, 1, 16, 29, 32, 2, 1, 0, 1, 2, 15, 11, 2, 27, 3522>>,
      total_power |-> 7826],
     [samples |-> <<Run(0, TRUE, 0, 16), Run(15, TRUE, 60, 920), Run(0, TRUE, 0, 44)>>,
      powers |-> <<8, 9, 10, 11, 12, 11, 8, 4, 3, 7, 12, 9, 0, 20, 237, 10197>>,
      total_power |-> 10560],
     [samples |-> <<Run(0, TRUE, 512, 16), Run(15, TRUE, 60, 920), Run(0, TRUE, 0, 44)>>,
      powers |-> <<3, 1, 0, 1, 3, 5, 6, 4, 1, 1, 4, 6, 2, 20, 221, 10364>>,
      total_power |-> 10640],
     [samples |-> <<Run(3, TRUE, 0, 16), Run(3, TRUE, 528, 452), Run(4, TRUE, 0, 512)>>,
      powers |-> <<15, 46, 158, 4326, 4775, 121, 54, 44, 40, 33, 25, 4, 5, 5, 5, 4>>,
      total_power |-> 9659],
     [samples |-> <<Run(3, TRUE, 0, 16), Run(3, TRUE, 528, 452), Run(4, TRUE, 0, 60), Run(4, TRUE, 572, 408), Run(5, TRUE, 0, 44)>>,
      powers |-> <<10, 4, 54, 5305, 4006, 192, 45, 111, 136, 97, 43, 29, 18, 13, 11, 4>>,
      total_power |-> 10078],
     [samples |-> <<Run(3, TRUE, 0, 16), Run(4, TRUE, 60, 920), Run(5, TRUE, 0, 44)>>,
      powers |-> <<5, 18, 31, 7, 18092, 260, 44, 8, 2, 9, 14, 12, 8, 5, 5, 4>>,
      total_power |-> 18523],
     [samples |-> <<Run(3, TRUE, 512, 16), Run(4, TRUE, 60, 920), Run(5, TRUE, 0, 44)>>,
      powers |-> <<0, 6, 29, 13, 17692, 332, 77, 19, 1, 5, 14, 17, 13, 9, 8, 7>>,
      total_power |-> 18240],
     [samples |-> <<Run(0, TRUE, 0, 164), Run(0, TRUE, 676, 304), Run(12, TRUE, 0, 208), Run(12, TRUE, 720, 260), Run(Silent, FALSE, 0, 44)>>,
      powers |-> <<1150, 1158, 352, 24, 110, 48, 11, 12, 70, 130, 79, 1923, 52, 1869, 84, 110>>,
      total_power |-> 7182],
     [samples |-> <<Run(0, TRUE, 0, 164), Run(0, TRUE, 676, 304), Run(12, TRUE, 0, 512)>>,
      powers |-> <<1070, 1191, 263, 13, 39, 22, 8, 16, 65, 37, 67, 49, 5250, 28, 1, 51>>,
      total_power |-> 8171],
     [samples |-> <<Run(0, TRUE, 0, 164), Run(12, TRUE, 208, 772), Run(Silent, FALSE, 0, 44)>>,
      powers |-> <<458, 370, 61, 0, 20, 12, 3, 4, 16, 9, 53, 528, 12118, 479, 18, 44>>,
      total_power |-> 14195],
     [samples |-> <<Run(0, TRUE, 512, 164), Run(12, TRUE, 208, 772), Run(Silent, FALSE, 0, 44)>>,
      powers |-> <<618, 487, 41, 16, 48, 7, 14, 26, 9, 46, 76, 627, 12211, 420, 27, 25>>,
      total_power |-> 14698],
     [samples |-> <<Run(10, TRUE, 0, 164), Run(10, TRUE, 208, 292), Run(Silent, FALSE, 0, 524)>>,
      powers |-> <<1, 1, 3, 3, 1, 0, 17, 13, 4, 15, 3678, 50, 0, 7, 13, 1>>,
      total_power |-> 3806],
     [samples |-> <<Run(10, TRUE, 0, 164), Run(10, TRUE, 676, 304), Run(10, TRUE, 0, 208), Run(10, TRUE, 720, 260), Run(6, TRUE, 0, 44)>>,
      powers |-> <<5, 6, 17, 1, 16, 45, 7, 104, 132, 2041, 4861, 15, 37, 44, 9, 2>>,
      total_power |-> 7341],
     [samples |-> <<Run(10, TRUE, 0, 164), Run(10, TRUE, 676, 304), Run(10, TRUE, 0, 208), Run(Silent, FALSE, 0, 304)>>,
      powers |-> <<2, 0, 13, 4, 25, 20, 12, 5, 150, 1459, 2421, 197, 87, 21, 13, 14>>,
      total_power |-> 4444],
     [samples |-> <<Run(10, TRUE, 0, 164), Run(10, TRUE, 676, 304), Run(10, TRUE, 0, 500), Run(Silent, FALSE, 0, 12)>>,
      powers |-> <<1, 0, 12, 3, 22, 12, 8, 13, 111, 1038, 8264, 439, 323, 17, 82, 5>>,
      total_power |-> 10352],
     [samples |-> <<Run(10, TRUE, 0, 164), Run(10, TRUE, 676, 304), Run(Silent, FALSE, 0, 512)>>,
      powers |-> <<0, 1, 3, 1, 4, 8, 3, 24, 72, 488, 1437, 265, 147, 3, 61, 19>>,
      total_power |-> 2538],
     [samples |-> <<Run(10, TRUE, 0, 164), Run(10, TRUE, 676, 304), Run(10, TRUE, 0, 512)>>,
      powers |-> <<0, 3, 6, 5, 19, 3, 13, 5, 152, 1137, 8585, 433, 364, 25, 77, 17>>,
      total_power |-> 10846],
     [samples |-> <<Run(10, TRUE, 0, 164), Run(10, TRUE, 208, 772), Run(6, TRUE, 0, 44)>>,
      powers |-> <<4, 4, 4, 6, 12, 25, 46, 34, 5, 82, 9703, 292, 33, 1, 4, 5>>,
      total_power |-> 10262],
     [samples |-> <<Run(10, TRUE, 0, 164), Run(Silent, FALSE, 0, 816)>>,
      powers |-> <<2, 1, 5, 3, 1, 11, 11, 3, 90, 292, 441, 272, 77, 2, 11, 9>>,
      total_power |-> 1229],
     [samples |-> <<Run(10, TRUE, 512, 164), Run(10, TRUE, 208, 292), Run(Silent, FALSE, 0, 524)>>,
      powers |-> <<1, 4, 1, 4, 4, 8, 55, 6, 80, 240, 3859, 697, 167, 7, 51, 23>>,
      total_power |-> 5208],
     [samples |-> <<Run(10, TRUE, 512, 164), Run(10, TRUE, 208, 772), Run(6, TRUE, 0, 44)>>,
      powers |-> <<5, 16, 4, 13, 34, 11, 102, 14, 93, 164, 12982, 426, 273, 2, 38, 15>>,
      total_power |-> 14190],
     [samples |-> <<Run(10, TRUE, 512, 164), Run(Silent, FALSE, 0, 816)>>,
      powers |-> <<2, 4, 1, 7, 5, 1, 26, 3, 56, 328, 587, 326, 52, 5, 31, 1>>,
      total_power |-> 1433],
     [samples |-> <<Run(0, TRUE, 0, 192), Run(0, TRUE, 704, 276), Run(15, TRUE, 0, 236), Run(15, TRUE, 748, 232), Run(0, TRUE, 0, 44)>>,
      powers |-> <<1113, 1459, 57, 76, 13, 45, 15, 10, 3, 4, 7, 23, 19, 2, 40, 3537>>,
      total_power |-> 6426],
     [samples |-> <<Run(0, TRUE, 0, 192), Run(0, TRUE, 704, 276), Run(15, TRUE, 0, 512)>>,
      powers |-> <<1064, 1302, 103, 72, 45, 11, 31, 0, 18, 5, 6, 5, 41, 58, 173, 4352>>,
      total_power |-> 7286],
     [samples |-> <<Run(0, TRUE, 0, 192), Run(15, TRUE, 236, 744), Run(0, TRUE, 0, 44)>>,
      powers |-> <<780, 551, 13, 21, 13, 23, 11, 20, 3, 9, 24, 30, 24, 89, 55, 8062>>,
      total_power |-> 9729],
     [samples |-> <<Run(0, TRUE, 512, 192), Run(15, TRUE, 236, 744), Run(0, TRUE, 0, 44)>>,
      powers |-> <<787, 392, 11, 12, 18, 4, 9, 4, 1, 2, 5, 22, 18, 77, 58, 8270>>,
      total_power |-> 9692],
     [samples |-> <<Run(7, TRUE, 0, 192), Run(7, TRUE, 704, 276), Run(8, TRUE, 0, 236), Run(8, TRUE, 748, 232), Run(9, TRUE, 0, 44)>>,
      powers |-> <<11, 36, 7, 134, 13, 173, 2374, 265, 7850, 67, 58, 10, 33, 17, 30, 10>>,
      total_power |-> 11089],
     [samples |-> <<Run(7, TRUE, 0, 192), Run(7, TRUE, 704, 276), Run(8, TRUE, 0, 512)>>,
      powers |-> <<9, 30, 5, 119, 40, 214, 1984, 1367, 10006, 50, 33, 2, 47, 11, 20, 1>>,
      total_power |-> 13940],
     [samples |-> <<Run(7, TRUE, 0, 192), Run(8, TRUE, 236, 744), Run(9, TRUE, 0, 44)>>,
      powers |-> <<10, 8, 37, 15, 17, 18, 431, 66, 16875, 319, 17, 15, 28, 2, 30, 2>>,
      total_power |-> 17889],
     [samples |-> <<Run(7, TRUE, 512, 192), Run(8, TRUE, 236, 744), Run(9, TRUE, 0, 44)>>,
      powers |-> <<9, 6, 34, 22, 148, 7, 738, 985, 12038, 661, 40, 16, 47, 4, 27, 8>>,
      total_power |-> 14791],
     [samples |-> <<Run(10, TRUE, 0, 208), Run(10, TRUE, 720, 260), Run(6, TRUE, 0, 252), Run(6, TRUE, 764, 216), Run(4, TRUE, 0, 44)>>,
      powers |-> <<0, 62, 38, 157, 82, 962, 29, 1340, 12, 209, 1431, 239, 87, 82, 77, 26>>,
      total_power |-> 4834],
     [samples |-> <<Run(10, TRUE, 0, 208), Run(10, TRUE, 720, 260), Run(6, TRUE, 0, 512)>>,
      powers |-> <<9, 9, 17, 9, 82, 166, 4722, 138, 63, 461, 1035, 279, 11, 85, 15, 9>>,
      total_power |-> 7111],
     [samples |-> <<Run(10, TRUE, 0, 208), Run(6, TRUE, 252, 728), Run(4, TRUE, 0, 44)>>,
      powers |-> <<3, 38, 43, 61, 108, 141, 8827, 103, 189, 238, 602, 323, 65, 22, 47, 5>>,
      total_power |-> 10816],
     [samples |-> <<Run(10, TRUE, 0, 208), Run(Silent, FALSE, 0, 772)>>,
      powers |-> <<2, 1, 3, 1, 9, 4, 25, 20, 26, 361, 753, 325, 18, 21, 21, 3>>,
      total_power |-> 1592],
     [samples |-> <<Run(10, TRUE, 512, 208), Run(6, TRUE, 252, 728), Run(4, TRUE, 0, 44)>>,
      powers |-> <<3, 53, 44, 110, 80, 205, 8307, 193, 97, 241, 842, 357, 17, 37, 29, 22>>,
      total_power |-> 10636],
     [samples |-> <<Run(12, TRUE, 0, 208), Run(12, TRUE, 720, 260), Run(Silent, FALSE, 0, 512)>>,
      powers |-> <<3, 3, 4, 5, 10, 4, 14, 20, 34, 121, 45, 2106, 66, 1703, 51, 111>>,
      total_power |-> 4302],
     [samples |-> <<Run(12, TRUE, 0, 208), Run(Silent, FALSE, 0, 772)>>,
      powers |-> <<1, 1, 1, 1, 3, 0, 8, 1, 16, 27, 5, 490, 768, 441, 53, 30>>,
      total_power |-> 1846],
     [samples |-> <<Run(12, TRUE, 512, 208), Run(Silent, FALSE, 0, 772)>>,
      powers |-> <<2, 4, 4, 4, 2, 10, 7, 16, 3, 50, 2, 574, 988, 468, 17, 40>>,
      total_power |-> 2193],
     [samples |-> <<Run(15, TRUE, 0, 236), Run(15, TRUE, 748, 232), Run(0, TRUE, 0, 280), Run(0, TRUE, 792, 188), Run(15, TRUE, 0, 44)>>,
      powers |-> <<1102, 1288, 138, 22, 43, 18, 27, 13, 6, 7, 8, 41, 24, 24, 70, 3481>>,
      total_power |-> 6312],
     [samples |-> <<Run(15, TRUE, 0, 236), Run(15, TRUE, 748, 232), Run(0, TRUE, 0, 512)>>,
      powers |-> <<5093, 97, 71, 36, 19, 14, 2, 3, 2, 4, 1, 15, 6, 2, 68, 3718>>,
      total_power |-> 9151],
     [samples |-> <<Run(15, TRUE, 0, 236), Run(0, TRUE, 280, 700), Run(15, TRUE, 0, 44)>>,
      powers |-> <<9524, 319, 53, 50, 0, 36, 24, 2, 19, 3, 35, 10, 106, 7, 447, 786>>,
      total_power |-> 11422],
     [samples |-> <<Run(15, TRUE, 512, 236), Run(0, TRUE, 280, 700), Run(15, TRUE, 0, 44)>>,
      powers |-> <<9683, 339, 41, 57, 1, 56, 39, 9, 27, 20, 34, 3, 115, 4, 419, 974>>,
      total_power |-> 11821],
     [samples |-> <<Run(8, TRUE, 0, 236), Run(8, TRUE, 748, 232), Run(9, TRUE, 0, 280), Run(9, TRUE, 792, 188), Run(10, TRUE, 0, 44)>>,
      powers |-> <<4, 9, 15, 40, 17, 26, 91, 675, 4331, 4372, 1019, 22, 27, 49, 42, 4>>,
      total_power |-> 10742],
     [samples |-> <<Run(8, TRUE, 0, 236), Run(8, TRUE, 748, 232), Run(9, TRUE, 0, 512)>>,
      powers |-> <<2, 9, 9, 38, 21, 64, 28, 417, 4347, 5741, 381, 22, 67, 20, 40, 4>>,
      total_power |-> 11211],
     [samples |-> <<Run(8, TRUE, 0, 236), Run(9, TRUE, 280, 700), Run(10, TRUE, 0, 44)>>,
      powers |-> <<9, 26, 47, 5, 37, 56, 97, 554, 1166, 9543, 349, 126, 58, 2, 53, 27>>,
      total_power |-> 12154],
     [samples |-> <<Run(8, TRUE, 512, 236), Run(9, TRUE, 280, 700), Run(10, TRUE, 0, 44)>>,
      powers |-> <<12, 10, 32, 15, 53, 67, 34, 615, 2336, 7490, 264, 106, 81, 3, 34, 16>>,
      total_power |-> 11166],
     [samples |-> <<Run(6, TRUE, 0, 252), Run(6, TRUE, 764, 216), Run(4, TRUE, 0, 296), Run(4, TRUE, 808, 172), Run(3, TRUE, 0, 44)>>,
      powers |-> <<4, 6, 117, 1442, 2425, 141, 111, 1257, 64, 222, 43, 16, 4, 7, 1, 3>>,
      total_power |-> 5865],
     [samples |-> <<Run(6, TRUE, 0, 252), Run(6, TRUE, 764, 216), Run(4, TRUE, 0, 512)>>,
      powers |-> <<12, 31, 21, 193, 5886, 1019, 21, 1562, 1, 146, 18, 42, 15, 14, 6, 2>>,
      total_power |-> 8991],
     [samples |-> <<Run(6, TRUE, 0, 252), Run(4, TRUE, 296, 684), Run(3, TRUE, 0, 44)>>,
      powers |-> <<7, 36, 32, 588, 9808, 108, 1381, 295, 4, 117, 7, 9, 9, 6, 6, 1>>,
      total_power |-> 12415],
     [samples |-> <<Run(6, TRUE, 512, 252), Run(4, TRUE, 296, 684), Run(3, TRUE, 0, 44)>>,
      powers |-> <<8, 8, 49, 525, 10286, 832, 1039, 638, 53, 100, 35, 1, 29, 0, 23, 12>>,
      total_power |-> 13638],
     [samples |-> <<Run(0, TRUE, 0, 280), Run(0, TRUE, 792, 188), Run(15, TRUE, 0, 324), Run(15, TRUE, 836, 144), Run(0, TRUE, 0, 44)>>,
      powers |-> <<1273, 1331, 170, 13, 37, 44, 23, 3, 7, 3, 8, 37, 10, 2, 29, 3513>>,
      total_power |-> 6503],
     [samples |-> <<Run(0, TRUE, 0, 280), Run(0, TRUE, 792, 188), Run(15, TRUE, 0, 512)>>,
      powers |-> <<1095, 1304, 182, 29, 62, 10, 13, 22, 0, 16, 4, 13, 27, 74, 158, 4352>>,
      total_power |-> 7360],
     [samples |-> <<Run(0, TRUE, 0, 280), Run(15, TRUE, 324, 656), Run(0, TRUE, 0, 44)>>,
      powers |-> <<1671, 714, 61, 16, 8, 25, 27, 1, 15, 4, 26, 47, 26, 8, 284, 6771>>,
      total_power |-> 9704],
     [samples |-> <<Run(0, TRUE, 512, 280), Run(15, TRUE, 324, 656), Run(0, TRUE, 0, 44)>>,
      powers |-> <<1706, 540, 37, 9, 17, 4, 7, 5, 2, 1, 6, 27, 25, 9, 262, 6942>>,
      total_power |-> 9597],
     [samples |-> <<Run(9, TRUE, 0, 280), Run(9, TRUE, 792, 188), Run(10, TRUE, 0, 324), Run(10, TRUE, 836, 144), Run(11, TRUE, 0, 44)>>,
      powers |-> <<4, 17, 13, 29, 3, 10, 43, 84, 246, 5481, 332, 214, 289, 64, 49, 10>>,
      total_power |-> 6887],
     [samples |-> <<Run(9, TRUE, 0, 280), Run(9, TRUE, 792, 188), Run(10, TRUE, 0, 512)>>,
      powers |-> <<1, 2, 8, 6, 15, 7, 19, 2, 103, 4996, 1757, 190, 104, 86, 34, 3>>,
      total_power |-> 7334],
     [samples |-> <<Run(9, TRUE, 0, 280), Run(10, TRUE, 324, 656), Run(11, TRUE, 0, 44)>>,
      powers |-> <<9, 16, 9, 11, 15, 32, 75, 57, 283, 3387, 3377, 436, 31, 17, 84, 43>>,
      total_power |-> 7883],
     [samples |-> <<Run(9, TRUE, 512, 280), Run(10, TRUE, 324, 656), Run(11, TRUE, 0, 44)>>,
      powers |-> <<5, 7, 13, 2, 27, 34, 42, 92, 261, 3528, 3453, 676, 9, 75, 55, 19>>,
      total_power |-> 8299],
     [samples |-> <<Run(4, TRUE, 0, 296), Run(4, TRUE, 808, 172), Run(3, TRUE, 0, 340), Run(3, TRUE, 852, 128), Run(1, TRUE, 0, 44)>>,
      powers |-> <<26, 39, 6, 7432, 1025, 1893, 95, 22, 111, 20, 22, 26, 8, 7, 9, 3>>,
      total_power |-> 10744],
     [samples |-> <<Run(4, TRUE, 0, 296), Run(4, TRUE, 808, 172), Run(3, TRUE, 0, 512)>>,
      powers |-> <<3, 69, 87, 8642, 2145, 1473, 165, 37, 130, 12, 25, 22, 4, 5, 7, 4>>,
      total_power |-> 12829],
     [samples |-> <<Run(4, TRUE, 0, 296), Run(3, TRUE, 340, 640), Run(1, TRUE, 0, 44)>>,
      powers |-> <<65, 16, 323, 12106, 582, 1021, 83, 39, 31, 6, 35, 14, 1, 7, 2, 1>>,
      total_power |-> 14331],
     [samples |-> <<Run(4, TRUE, 512, 296), Run(3, TRUE, 340, 640), Run(1, TRUE, 0, 44)>>,
      powers |-> <<46, 12, 130, 7124, 2622, 824, 221, 42, 13, 34, 4, 3, 10, 1, 4, 4>>,
      total_power |-> 11094],
     [samples |-> <<Run(0, TRUE, 0, 32), Run(0, TRUE, 544, 436), Run(0, TRUE, 0, 512)>>,
      powers |-> <<15051, 784, 87, 87, 75, 52, 14, 13, 9, 4, 2, 2, 1, 1, 2, 3>>,
      total_power |-> 16188],
     [samples |-> <<Run(0, TRUE, 0, 32), Run(0, TRUE, 544, 436), Run(0, TRUE, 0, 76), Run(0, TRUE, 588, 392), Run(0, TRUE, 0, 44)>>,
      powers |-> <<81, 28, 270, 317, 169, 45, 21, 21, 21, 14, 13, 0, 1, 2, 5, 7>>,
      total_power |-> 1015],
     [samples |-> <<Run(0, TRUE, 0, 32), Run(0, TRUE, 544, 436), Run(0, TRUE, 0, 76), Run(0, TRUE, 588, 392), Run(1, TRUE, 0, 44)>>,
      powers |-> <<73, 33, 231, 271, 135, 29, 13, 12, 17, 16, 20, 1, 2, 5, 8, 4>>,
      total_power |-> 869],
     [samples |-> <<Run(0, TRUE, 0, 32), Run(0, TRUE, 76, 904), Run(0, TRUE, 0, 44)>>,
      powers |-> <<16015, 537, 58, 10, 5, 9, 7, 4, 2, 3, 3, 1, 1, 0, 0, 0>>,
      total_power |-> 16656],
     [samples |-> <<Run(0, TRUE, 0, 32), Run(0, TRUE, 76, 904), Run(1, TRUE, 0, 44)>>,
      powers |-> <<16099, 504, 41, 3, 7, 16, 14, 8, 4, 3, 3, 2, 1, 0, 0, 0>>,
      total_power |-> 16706],
     [samples |-> <<Run(0, TRUE, 512, 32), Run(0, TRUE, 76, 904), Run(0, TRUE, 0, 44)>>,
      powers |-> <<14324, 850, 99, 15, 27, 53, 48, 30, 20, 16, 12, 4, 2, 1, 1, 3>>,
      total_power |-> 15505],
     [samples |-> <<Run(0, TRUE, 512, 32), Run(0, TRUE, 76, 904), Run(1, TRUE, 0, 44)>>,
      powers |-> <<14402, 818, 92, 21, 43, 74, 64, 40, 24, 16, 10, 2, 0, 1, 2, 5>>,
      total_power |-> 15613],
     [samples |-> <<Run(15, TRUE, 0, 32), Run(15, TRUE, 544, 436), Run(0, TRUE, 0, 512)>>,
      powers |-> <<5085, 94, 72, 34, 20, 13, 2, 2, 3, 3, 2, 12, 11, 2, 31, 3603>>,
      total_power |-> 8990],
     [samples |-> <<Run(15, TRUE, 0, 32), Run(15, TRUE, 544, 436), Run(0, TRUE, 0, 76), Run(0, TRUE, 588, 392), Run(0, TRUE, 0, 44)>>,
      powers |-> <<2562, 576, 223, 178, 68, 13, 25, 10, 12, 8, 3, 4, 15, 9, 13, 3724>>,
      total_power |-> 7444],
     [samples |-> <<Run(15, TRUE, 0, 32), Run(15, TRUE, 544, 436), Run(0, TRUE, 0, 76), Run(0, TRUE, 588, 392), Run(1, TRUE, 0, 44)>>,
      powers |-> <<2655, 551, 187, 143, 46, 8, 21, 4, 8, 8, 7, 8, 19, 12, 10, 3664>>,
      total_power |-> 7352],
     [samples |-> <<Run(15, TRUE, 0, 32), Run(0, TRUE, 76, 904), Run(0, TRUE, 0, 44)>>,
      powers |-> <<15749, 579, 56, 4, 6, 17, 17, 11, 9, 9, 9, 6, 4, 3, 2, 1>>,
      total_power |-> 16481],
     [samples |-> <<Run(15, TRUE, 0, 32), Run(0, TRUE, 76, 904), Run(1, TRUE, 0, 44)>>,
      powers |-> <<15832, 546, 41, 0, 11, 27, 26, 17, 11, 9, 8, 4, 2, 1, 1, 0>>,
      total_power |-> 16537],
     [samples |-> <<Run(15, TRUE, 512, 32), Run(0, TRUE, 76, 904), Run(0, TRUE, 0, 44)>>,
      powers |-> <<15904, 540, 42, 1, 13, 32, 35, 29, 28, 32, 35, 32, 28, 26, 24, 20>>,
      total_power |-> 16821],
     [samples |-> <<Run(15, TRUE, 512, 32), Run(0, TRUE, 76, 904), Run(1, TRUE, 0, 44)>>,
      powers |-> <<15990, 510, 30, 0, 21, 45, 47, 37, 31, 32, 32, 26, 22, 19, 18, 15>>,
      total_power |-> 16874],
     [samples |-> <<Run(10, TRUE, 0, 324), Run(10, TRUE, 836, 144), Run(11, TRUE, 0, 368), Run(11, TRUE, 880, 100), Run(12, TRUE, 0, 44)>>,
      powers |-> <<0, 2, 8, 15, 31, 12, 64, 98, 537, 1412, 1302, 2966, 77, 351, 307, 1>>,
      total_power |-> 7184],
     [samples |-> <<Run(10, TRUE, 0, 324), Run(10, TRUE, 836, 144), Run(11, TRUE, 0, 512)>>,
      powers |-> <<6, 7, 2, 6, 16, 12, 33, 2, 224, 780, 2854, 6605, 481, 53, 71, 14>>,
      total_power |-> 11167],
     [samples |-> <<Run(10, TRUE, 0, 324), Run(11, TRUE, 368, 612), Run(12, TRUE, 0, 44)>>,
      powers |-> <<0, 4, 4, 4, 2, 8, 10, 20, 93, 85, 2922, 5717, 164, 144, 68, 26>>,
      total_power |-> 9271],
     [samples |-> <<Run(10, TRUE, 512, 324), Run(11, TRUE, 368, 612), Run(12, TRUE, 0, 44)>>,
      powers |-> <<6, 8, 8, 13, 18, 13, 31, 47, 86, 26, 4281, 7881, 770, 180, 10, 11>>,
      total_power |-> 13390],
     [samples |-> <<Run(15, TRUE, 0, 324), Run(15, TRUE, 836, 144), Run(0, TRUE, 0, 368), Run(0, TRUE, 880, 100), Run(15, TRUE, 0, 44)>>,
      powers |-> <<2183, 801, 217, 107, 34, 16, 3, 16, 13, 1, 11, 60, 31, 5, 56, 3455>>,
      total_power |-> 7008],
     [samples |-> <<Run(15, TRUE, 0, 324), Run(15, TRUE, 836, 144), Run(0, TRUE, 0, 512)>>,
      powers |-> <<5095, 96, 76, 33, 20, 14, 2, 2, 3, 4, 1, 12, 12, 1, 49, 3689>>,
      total_power |-> 9108],
     [samples |-> <<Run(15, TRUE, 0, 324), Run(0, TRUE, 368, 612), Run(15, TRUE, 0, 44)>>,
      powers |-> <<7356, 40, 24, 2, 17, 38, 20, 18, 2, 19, 31, 59, 3, 157, 230, 1635>>,
      total_power |-> 9650],
     [samples |-> <<Run(15, TRUE, 512, 324), Run(0, TRUE, 368, 612), Run(15, TRUE, 0, 44)>>,
      powers |-> <<7504, 54, 28, 4, 17, 59, 42, 22, 3, 46, 27, 40, 14, 177, 151, 1880>>,
      total_power |-> 10068],
     [samples |-> <<Run(3, TRUE, 0, 340), Run(3, TRUE, 852, 128), Run(1, TRUE, 0, 384), Run(1, TRUE, 896, 84), Run(Silent, FALSE, 0, 44)>>,
      powers |-> <<104, 2694, 58, 4613, 90, 198, 31, 3, 31, 28, 4, 3, 4, 2, 2, 1>>,
      total_power |-> 7867],
     [samples |-> <<Run(3, TRUE, 0, 340), Run(3, TRUE, 852, 128), Run(1, TRUE, 0, 384), Run(1, TRUE, 896, 84), Run(15, TRUE, 0, 44)>>,
      powers |-> <<120, 2634, 51, 4595, 101, 192, 28, 5, 59, 53, 7, 11, 22, 17, 4, 16>>,
      total_power |-> 7917],
     [samples |-> <<Run(3, TRUE, 0, 340), Run(3, TRUE, 852, 128), Run(1, TRUE, 0, 512)>>,
      powers |-> <<115, 3640, 40, 4715, 96, 125, 3, 6, 16, 7, 0, 2, 5, 2, 1, 1>>,
      total_power |-> 8773],
     [samples |-> <<Run(3, TRUE, 0, 340), Run(1, TRUE, 384, 596), Run(Silent, FALSE, 0, 44)>>,
      powers |-> <<510, 7461, 259, 2448, 394, 84, 44, 2, 14, 4, 6, 3, 4, 2, 2, 1>>,
      total_power |-> 11236],
     [samples |-> <<Run(3, TRUE, 0, 340), Run(1, TRUE, 384, 596), Run(15, TRUE, 0, 44)>>,
      powers |-> <<549, 7577, 296, 2458, 367, 58, 25, 10, 27, 2, 16, 9, 22, 12, 3, 4>>,
      total_power |-> 11435],
     [samples |-> <<Run(3, TRUE, 512, 340), Run(1, TRUE, 384, 596), Run(Silent, FALSE, 0, 44)>>,
      powers |-> <<599, 7209, 67, 3269, 240, 120, 64, 9, 6, 22, 10, 6, 1, 5, 5, 4>>,
      total_power |-> 11636],
     [samples |-> <<Run(3, TRUE, 512, 340), Run(1, TRUE, 384, 596), Run(15, TRUE, 0, 44)>>,
      powers |-> <<642, 7322, 86, 3350, 201, 101, 42, 14, 4, 6, 14, 7, 15, 6, 1, 1>>,
      total_power |-> 11812],
     [samples |-> <<Run(Silent, FALSE, 0, 352), Run(0, TRUE, 396, 584), Run(1, TRUE, 0, 44)>>,
      powers |-> <<7014, 5, 64, 25, 5, 9, 2, 3, 5, 1, 0, 0, 1, 2, 1, 1>>,
      total_power |-> 7140],
     [samples |-> <<Run(Silent, FALSE, 0, 352), Run(15, TRUE, 396, 584), Run(0, TRUE, 0, 44)>>,
      powers |-> <<14, 14, 14, 8, 2, 7, 1, 6, 4, 1, 12, 4, 33, 99, 315, 5693>>,
      total_power |-> 6226],
     [samples |-> <<Run(0, TRUE, 0, 368), Run(0, TRUE, 880, 100), Run(15, TRUE, 0, 412), Run(15, TRUE, 924, 56), Run(0, TRUE, 0, 44)>>,
      powers |-> <<2464, 711, 175, 103, 50, 42, 11, 15, 7, 4, 9, 26, 29, 5, 33, 3441>>,
      total_power |-> 7125],
     [samples |-> <<Run(0, TRUE, 0, 368), Run(0, TRUE, 880, 100), Run(15, TRUE, 0, 512)>>,
      powers |-> <<2169, 804, 261, 148, 34, 9, 0, 7, 17, 15, 2, 30, 22, 39, 208, 4359>>,
      total_power |-> 8125],
     [samples |-> <<Run(0, TRUE, 0, 368), Run(15, TRUE, 412, 568), Run(0, TRUE, 0, 44)>>,
      powers |-> <<2880, 547, 38, 26, 12, 25, 19, 22, 7, 9, 26, 23, 59, 120, 322, 5401>>,
      total_power |-> 9538],
     [samples |-> <<Run(0, TRUE, 512, 368), Run(15, TRUE, 412, 568), Run(0, TRUE, 0, 44)>>,
      powers |-> <<2956, 439, 37, 29, 6, 4, 5, 6, 3, 0, 6, 10, 43, 104, 279, 5534>>,
      total_power |-> 9463],
     [samples |-> <<Run(11, TRUE, 0, 368), Run(11, TRUE, 880, 100), Run(12, TRUE, 0, 412), Run(12, TRUE, 924, 56), Run(13, TRUE, 0, 44)>>,
      powers |-> <<1, 1, 43, 30, 26, 38, 33, 126, 400, 634, 301, 4796, 4849, 157, 64, 174>>,
      total_power |-> 11674],
     [samples |-> <<Run(11, TRUE, 0, 368), Run(11, TRUE, 880, 100), Run(12, TRUE, 0, 512)>>,
      powers |-> <<5, 13, 12, 14, 9, 3, 11, 21, 228, 522, 379, 2601, 8016, 497, 144, 85>>,
      total_power |-> 12562],
     [samples |-> <<Run(11, TRUE, 0, 368), Run(12, TRUE, 412, 568), Run(13, TRUE, 0, 44)>>,
      powers |-> <<1, 1, 1, 0, 0, 1, 0, 7, 44, 111, 113, 2794, 5470, 187, 111, 10>>,
      total_power |-> 8851],
     [samples |-> <<Run(11, TRUE, 512, 368), Run(12, TRUE, 412, 568), Run(13, TRUE, 0, 44)>>,
      powers |-> <<4, 8, 7, 10, 6, 5, 13, 14, 23, 14, 86, 2896, 7383, 293, 116, 44>>,
      total_power |-> 10922],
     [samples |-> <<Run(1, TRUE, 0, 384), Run(Silent, FALSE, 0, 596)>>,
      powers |-> <<43, 2642, 15, 73, 38, 3, 4, 0, 3, 3, 1, 1, 0, 1, 0, 0>>,
      total_power |-> 2827],
     [samples |-> <<Run(1, TRUE, 0, 384), Run(15, TRUE, 428, 72), Run(Silent, FALSE, 0, 524)>>,
      powers |-> <<36, 2734, 16, 74, 44, 9, 8, 2, 1, 2, 4, 21, 39, 63, 90, 115>>,
      total_power |-> 3260],
     [samples |-> <<Run(1, TRUE, 0, 384), Run(1, TRUE, 896, 84), Run(15, TRUE, 0, 428), Run(Silent, FALSE, 0, 84)>>,
      powers |-> <<86, 3335, 95, 108, 37, 16, 11, 8, 17, 17, 11, 12, 27, 23, 2, 3410>>,
      total_power |-> 7216],
     [samples |-> <<Run(1, TRUE, 0, 384), Run(1, TRUE, 896, 84), Run(15, TRUE, 0, 500), Run(Silent, FALSE, 0, 12)>>,
      powers |-> <<82, 3241, 107, 109, 30, 12, 14, 1, 10, 17, 14, 8, 28, 52, 134, 4535>>,
      total_power |-> 8395],
     [samples |-> <<Run(1, TRUE, 0, 384), Run(1, TRUE, 896, 84), Run(Silent, FALSE, 0, 512)>>,
      powers |-> <<83, 3282, 100, 106, 33, 15, 12, 7, 8, 4, 1, 2, 3, 3, 2, 2>>,
      total_power |-> 3664],
     [samples |-> <<Run(1, TRUE, 512, 384), Run(Silent, FALSE, 0, 596)>>,
      powers |-> <<4, 2995, 0, 43, 56, 31, 21, 12, 2, 1, 6, 1, 5, 5, 2, 3>>,
      total_power |-> 3188],
     [samples |-> <<Run(1, TRUE, 512, 384), Run(15, TRUE, 428, 72), Run(Silent, FALSE, 0, 524)>>,
      powers |-> <<2, 3055, 1, 42, 66, 46, 38, 27, 7, 1, 15, 25, 67, 110, 131, 119>>,
      total_power |-> 3752],
     [samples |-> <<Run(0, TRUE, 0, 396), Run(1, TRUE, 440, 540), Run(2, TRUE, 0, 44)>>,
      powers |-> <<4220, 5938, 102, 26, 45, 42, 15, 7, 4, 4, 4, 3, 2, 2, 1, 1>>,
      total_power |-> 10416],
     [samples |-> <<Run(0, TRUE, 0, 396), Run(0, TRUE, 908, 72), Run(1, TRUE, 0, 440), Run(1, TRUE, 952, 28), Run(2, TRUE, 0, 44)>>,
      powers |-> <<2584, 6502, 36, 105, 49, 8, 5, 7, 19, 20, 10, 4, 4, 2, 1, 4>>,
      total_power |-> 9359],
     [samples |-> <<Run(0, TRUE, 0, 396), Run(0, TRUE, 908, 72), Run(1, TRUE, 0, 512)>>,
      powers |-> <<2061, 8238, 94, 123, 97, 52, 1, 12, 15, 7, 1, 2, 0, 2, 3, 1>>,
      total_power |-> 10709],
     [samples |-> <<Run(0, TRUE, 512, 396), Run(1, TRUE, 440, 540), Run(2, TRUE, 0, 44)>>,
      powers |-> <<1915, 7396, 215, 178, 164, 103, 38, 30, 12, 2, 5, 4, 2, 5, 8, 3>>,
      total_power |-> 10079],
     [samples |-> <<Run(15, TRUE, 0, 396), Run(0, TRUE, 440, 540), Run(15, TRUE, 0, 44)>>,
      powers |-> <<5871, 19, 51, 25, 18, 11, 5, 2, 2, 8, 20, 37, 86, 101, 20, 2586>>,
      total_power |-> 8862],
     [samples |-> <<Run(15, TRUE, 0, 396), Run(15, TRUE, 908, 72), Run(0, TRUE, 0, 440), Run(0, TRUE, 952, 28), Run(15, TRUE, 0, 44)>>,
      powers |-> <<3724, 351, 0, 5, 7, 4, 5, 5, 5, 5, 7, 26, 19, 14, 32, 3204>>,
      total_power |-> 7414],
     [samples |-> <<Run(15, TRUE, 0, 396), Run(15, TRUE, 908, 72), Run(0, TRUE, 0, 512)>>,
      powers |-> <<5065, 96, 74, 34, 19, 13, 1, 2, 4, 4, 2, 10, 6, 0, 31, 3630>>,
      total_power |-> 8990],
     [samples |-> <<Run(15, TRUE, 512, 396), Run(0, TRUE, 440, 540), Run(15, TRUE, 0, 44)>>,
      powers |-> <<5988, 12, 36, 25, 28, 24, 14, 9, 13, 25, 31, 58, 80, 59, 5, 2879>>,
      total_power |-> 9287],
     [samples |-> <<Run(12, TRUE, 0, 412), Run(13, TRUE, 456, 524), Run(14, TRUE, 0, 44)>>,
      powers |-> <<3, 5, 2, 4, 5, 5, 12, 33, 67, 87, 50, 352, 3196, 7005, 74, 23>>,
      total_power |-> 10920],
     [samples |-> <<Run(12, TRUE, 0, 412), Run(12, TRUE, 924, 56), Run(13, TRUE, 0, 456), Run(13, TRUE, 968, 12), Run(14, TRUE, 0, 44)>>,
      powers |-> <<7, 9, 15, 22, 24, 25, 28, 65, 98, 81, 13, 502, 2943, 5774, 102, 74>>,
      total_power |-> 9783],
     [samples |-> <<Run(12, TRUE, 0, 412), Run(12, TRUE, 924, 56), Run(13, TRUE, 0, 512)>>,
      powers |-> <<4, 7, 5, 8, 13, 25, 24, 82, 156, 175, 89, 508, 2721, 7134, 70, 3>>,
      total_power |-> 11022],
     [samples |-> <<Run(12, TRUE, 512, 412), Run(13, TRUE, 456, 524), Run(14, TRUE, 0, 44)>>,
      powers |-> <<2, 4, 2, 5, 9, 12, 10, 15, 15, 15, 45, 252, 3783, 5920, 122, 52>>,
      total_power |-> 10261],
     [samples |-> <<Run(15, TRUE, 0, 412), Run(0, TRUE, 456, 524), Run(15, TRUE, 0, 44)>>,
      powers |-> <<5417, 52, 83, 50, 44, 39, 3, 9, 17, 26, 26, 72, 105, 82, 4, 2725>>,
      total_power |-> 8753],
     [samples |-> <<Run(15, TRUE, 0, 412), Run(15, TRUE, 924, 56), Run(0, TRUE, 0, 456), Run(0, TRUE, 968, 12), Run(15, TRUE, 0, 44)>>,
      powers |-> <<4083, 286, 10, 3, 4, 5, 4, 0, 0, 2, 9, 33, 40, 28, 17, 3321>>,
      total_power |-> 7845],
     [samples |-> <<Run(15, TRUE, 0, 412), Run(15, TRUE, 924, 56), Run(0, TRUE, 0, 512)>>,
      powers |-> <<5096, 93, 72, 35, 21, 14, 2, 3, 3, 3, 1, 9, 7, 1, 29, 3608>>,
      total_power |-> 8996],
     [samples |-> <<Run(15, TRUE, 512, 412), Run(0, TRUE, 456, 524), Run(15, TRUE, 0, 44)>>,
      powers |-> <<5552, 38, 65, 44, 55, 60, 11, 28, 40, 37, 20, 85, 79, 36, 6, 3006>>,
      total_power |-> 9161],
     [samples |-> <<Run(15, TRUE, 0, 428), Run(Silent, FALSE, 0, 552)>>,
      powers |-> <<0, 0, 0, 0, 0, 1, 0, 1, 4, 6, 5, 23, 29, 15, 8, 3281>>,
      total_power |-> 3375],
     [samples |-> <<Run(0, TRUE, 0, 440), Run(0, TRUE, 952, 28), Run(15, TRUE, 0, 484), Run(0, TRUE, 16, 28)>>,
      powers |-> <<4093, 245, 8, 4, 6, 6, 18, 20, 18, 17, 18, 2, 0, 10, 101, 4208>>,
      total_power |-> 8775],
     [samples |-> <<Run(0, TRUE, 0, 440), Run(0, TRUE, 952, 28), Run(15, TRUE, 0, 512)>>,
      powers |-> <<3731, 340, 3, 7, 11, 9, 0, 1, 3, 6, 11, 11, 20, 48, 181, 4592>>,
      total_power |-> 8973],
     [samples |-> <<Run(0, TRUE, 0, 440), Run(15, TRUE, 484, 496), Run(0, TRUE, 0, 44)>>,
      powers |-> <<4174, 224, 6, 2, 4, 5, 5, 3, 0, 2, 9, 4, 8, 24, 124, 4349>>,
      total_power |-> 8942],
     [samples |-> <<Run(0, TRUE, 512, 440), Run(15, TRUE, 484, 496), Run(0, TRUE, 0, 44)>>,
      powers |-> <<4132, 264, 5, 2, 10, 16, 5, 1, 0, 3, 11, 5, 10, 24, 115, 4270>>,
      total_power |-> 8875],
     [samples |-> <<Run(1, TRUE, 0, 440), Run(1, TRUE, 952, 28), Run(2, TRUE, 0, 484), Run(3, TRUE, 16, 28)>>,
      powers |-> <<6, 2795, 4548, 22, 35, 47, 69, 51, 34, 20, 10, 3, 3, 2, 2, 1>>,
      total_power |-> 7648],
     [samples |-> <<Run(1, TRUE, 0, 440), Run(1, TRUE, 952, 28), Run(2, TRUE, 0, 512)>>,
      powers |-> <<95, 2883, 5245, 57, 2, 0, 23, 18, 11, 6, 2, 2, 1, 0, 0, 1>>,
      total_power |-> 8346],
     [samples |-> <<Run(1, TRUE, 0, 440), Run(2, TRUE, 484, 496), Run(3, TRUE, 0, 44)>>,
      powers |-> <<61, 2431, 5033, 74, 68, 64, 6, 1, 9, 17, 18, 1, 0, 1, 2, 1>>,
      total_power |-> 7786],
     [samples |-> <<Run(1, TRUE, 512, 440), Run(2, TRUE, 484, 496), Run(3, TRUE, 0, 44)>>,
      powers |-> <<18, 2740, 4362, 63, 56, 60, 29, 2, 3, 15, 27, 6, 1, 2, 5, 4>>,
      total_power |-> 7394],
     [samples |-> <<Run(0, TRUE, 0, 456), Run(0, TRUE, 968, 12), Run(15, TRUE, 0, 500), Run(0, TRUE, 32, 12)>>,
      powers |-> <<4223, 240, 20, 3, 4, 7, 2, 1, 1, 0, 0, 8, 19, 48, 172, 4436>>,
      total_power |-> 9183],
     [samples |-> <<Run(0, TRUE, 0, 456), Run(0, TRUE, 968, 12), Run(15, TRUE, 0, 512)>>,
      powers |-> <<4063, 281, 20, 1, 1, 2, 8, 5, 4, 3, 2, 19, 36, 74, 219, 4433>>,
      total_power |-> 9170],
     [samples |-> <<Run(0, TRUE, 0, 456), Run(15, TRUE, 500, 480), Run(0, TRUE, 0, 44)>>,
      powers |-> <<4389, 204, 32, 15, 19, 26, 2, 4, 8, 16, 26, 0, 1, 12, 103, 4038>>,
      total_power |-> 8896],
     [samples |-> <<Run(0, TRUE, 512, 456), Run(15, TRUE, 500, 480), Run(0, TRUE, 0, 44)>>,
      powers |-> <<4215, 236, 2, 2, 10, 16, 1, 0, 1, 4, 12, 1, 2, 10, 83, 4086>>,
      total_power |-> 8683],
     [samples |-> <<Run(10, TRUE, 44, 456), Run(Silent, FALSE, 0, 524)>>,
      powers |-> <<5, 6, 1, 2, 6, 12, 3, 0, 4, 60, 4034, 98, 12, 1, 0, 12>>,
      total_power |-> 4255],
     [samples |-> <<Run(13, TRUE, 0, 456), Run(13, TRUE, 968, 12), Run(14, TRUE, 0, 500), Run(15, TRUE, 32, 12)>>,
      powers |-> <<5, 5, 3, 4, 5, 7, 7, 9, 13, 21, 44, 61, 46, 3966, 4775, 182>>,
      total_power |-> 9153],
     [samples |-> <<Run(13, TRUE, 0, 456), Run(13, TRUE, 968, 12), Run(14, TRUE, 0, 512)>>,
      powers |-> <<0, 1, 1, 1, 0, 0, 11, 11, 10, 8, 13, 43, 43, 4296, 5086, 277>>,
      total_power |-> 9802],
     [samples |-> <<Run(13, TRUE, 0, 456), Run(14, TRUE, 500, 480), Run(15, TRUE, 0, 44)>>,
      powers |-> <<4, 4, 1, 3, 5, 8, 2, 2, 2, 0, 9, 63, 61, 3223, 6108, 115>>,
      total_power |-> 9610],
     [samples |-> <<Run(13, TRUE, 512, 456), Run(14, TRUE, 500, 480), Run(15, TRUE, 0, 44)>>,
      powers |-> <<2, 2, 1, 1, 3, 4, 3, 2, 1, 5, 25, 19, 24, 4517, 3852, 16>>,
      total_power |-> 8476],
     [samples |-> <<Run(15, TRUE, 44, 456), Run(Silent, FALSE, 0, 524)>>,
      powers |-> <<2, 2, 2, 3, 4, 5, 1, 2, 5, 9, 15, 0, 2, 15, 107, 4059>>,
      total_power |-> 4232],
     [samples |-> <<Run(Silent, FALSE, 0, 468), Run(0, TRUE, 0, 396), Run(0, TRUE, 908, 72), Run(1, TRUE, 0, 44)>>,
      powers |-> <<2444, 648, 72, 70, 44, 30, 16, 0, 6, 9, 5, 0, 2, 3, 2, 0>>,
      total_power |-> 3351],
     [samples |-> <<Run(Silent, FALSE, 0, 468), Run(15, TRUE, 0, 396), Run(15, TRUE, 908, 72), Run(0, TRUE, 0, 44)>>,
      powers |-> <<9, 9, 8, 7, 6, 6, 3, 2, 1, 0, 1, 17, 12, 3, 24, 3596>>,
      total_power |-> 3703],
     [samples |-> <<Run(Silent, FALSE, 0, 468), Run(0, TRUE, 0, 512)>>,
      powers |-> <<5068, 95, 73, 33, 17, 10, 2, 2, 1, 1, 1, 1, 1, 1, 1, 0>>,
      total_power |-> 5308],
     [samples |-> <<Run(Silent, FALSE, 0, 468), Run(15, TRUE, 0, 512)>>,
      powers |-> <<1, 1, 1, 1, 1, 2, 3, 3, 4, 5, 7, 14, 26, 58, 191, 4517>>,
      total_power |-> 4837],
     [samples |-> <<Run(0, TRUE, 512, 468), Run(0, TRUE, 0, 120), Run(0, TRUE, 632, 348), Run(10, TRUE, 0, 44)>>,
      powers |-> <<947, 611, 448, 160, 8, 19, 21, 5, 26, 26, 3, 12, 1, 5, 16, 7>>,
      total_power |-> 2315],
     [samples |-> <<Run(0, TRUE, 512, 468), Run(1, TRUE, 0, 120), Run(1, TRUE, 632, 348), Run(0, TRUE, 0, 44)>>,
      powers |-> <<5694, 3159, 188, 156, 23, 7, 2, 5, 9, 16, 9, 6, 1, 0, 2, 0>>,
      total_power |-> 9278],
     [samples |-> <<Run(0, TRUE, 512, 468), Run(15, TRUE, 0, 148), Run(15, TRUE, 660, 320), Run(0, TRUE, 0, 44)>>,
      powers |-> <<4209, 237, 5, 1, 7, 13, 6, 3, 2, 1, 2, 18, 19, 1, 36, 3648>>,
      total_power |-> 8209],
     [samples |-> <<Run(0, TRUE, 512, 468), Run(10, TRUE, 0, 164), Run(10, TRUE, 676, 304), Run(Silent, FALSE, 0, 44)>>,
      powers |-> <<4385, 194, 32, 3, 4, 3, 10, 37, 70, 469, 1479, 260, 132, 6, 69, 25>>,
      total_power |-> 7176],
     [samples |-> <<Run(0, TRUE, 512, 468), Run(10, TRUE, 0, 164), Run(10, TRUE, 676, 304), Run(10, TRUE, 0, 44)>>,
      powers |-> <<4567, 149, 44, 5, 10, 14, 13, 21, 70, 578, 1436, 315, 204, 12, 82, 14>>,
      total_power |-> 7535],
     [samples |-> <<Run(0, TRUE, 512, 468), Run(12, TRUE, 0, 208), Run(12, TRUE, 720, 260), Run(Silent, FALSE, 0, 44)>>,
      powers |-> <<4200, 171, 48, 2, 9, 7, 26, 10, 44, 131, 46, 2083, 64, 1765, 51, 98>>,
      total_power |-> 8754],
     [samples |-> <<Run(0, TRUE, 512, 468), Run(15, TRUE, 0, 236), Run(15, TRUE, 748, 232), Run(0, TRUE, 0, 44)>>,
      powers |-> <<4207, 237, 5, 1, 6, 13, 5, 4, 2, 1, 2, 20, 12, 7, 49, 3671>>,
      total_power |-> 8243],
     [samples |-> <<Run(0, TRUE, 512, 468), Run(15, TRUE, 0, 324), Run(15, TRUE, 836, 144), Run(0, TRUE, 0, 44)>>,
      powers |-> <<4205, 241, 4, 1, 6, 13, 5, 4, 3, 0, 2, 16, 20, 2, 34, 3640>>,
      total_power |-> 8198],
     [samples |-> <<Run(0, TRUE, 512, 468), Run(15, TRUE, 0, 412), Run(15, TRUE, 924, 56), Run(0, TRUE, 0, 44)>>,
      powers |-> <<4203, 245, 5, 1, 8, 13, 7, 4, 1, 1, 2, 13, 13, 4, 17, 3556>>,
      total_power |-> 8094],
     [samples |-> <<Run(0, TRUE, 512, 468), Run(1, TRUE, 0, 440), Run(1, TRUE, 952, 28), Run(2, TRUE, 0, 44)>>,
      powers |-> <<4213, 1981, 0, 8, 5, 1, 19, 18, 17, 14, 9, 4, 3, 4, 5, 5>>,
      total_power |-> 6305],
     [samples |-> <<Run(0, TRUE, 512, 468), Run(15, TRUE, 0, 484), Run(0, TRUE, 16, 28)>>,
      powers |-> <<4276, 230, 3, 3, 12, 18, 8, 8, 10, 14, 20, 3, 1, 10, 94, 4111>>,
      total_power |-> 8822],
     [samples |-> <<Run(0, TRUE, 512, 468), Run(15, TRUE, 0, 500), Run(0, TRUE, 32, 12)>>,
      powers |-> <<4331, 211, 15, 1, 1, 3, 3, 2, 2, 2, 4, 2, 8, 28, 131, 4492>>,
      total_power |-> 9236],
     [samples |-> <<Run(0, TRUE, 512, 468), Run(0, TRUE, 0, 512)>>,
      powers |-> <<16786, 471, 85, 37, 15, 5, 0, 0, 0, 0, 0, 0, 0, 0, 0, 0>>,
      total_power |-> 17400],
     [samples |-> <<Run(0, TRUE, 512, 468), Run(1, TRUE, 0, 512)>>,
      powers |-> <<6015, 2845, 123, 49, 25, 13, 4, 2, 2, 3, 2, 0, 0, 0, 0, 0>>,
      total_power |-> 9084],
     [samples |-> <<Run(0, TRUE, 512, 468), Run(10, TRUE, 0, 512)>>,
      powers |-> <<4324, 218, 18, 4, 4, 5, 3, 9, 31, 130, 4479, 210, 67, 32, 19, 10>>,
      total_power |-> 9562],
     [samples |-> <<Run(0, TRUE, 512, 468), Run(12, TRUE, 0, 512)>>,
      powers |-> <<4227, 252, 23, 2, 2, 6, 20, 21, 29, 50, 101, 18, 5360, 15, 4, 31>>,
      total_power |-> 10161],
     [samples |-> <<Run(0, TRUE, 512, 468), Run(15, TRUE, 0, 512)>>,
      powers |-> <<4452, 187, 27, 5, 1, 0, 7, 6, 5, 5, 7, 9, 20, 48, 173, 4488>>,
      total_power |-> 9441],
     [samples |-> <<Run(0, TRUE, 512, 468), Run(15, TRUE, 0, 60), Run(15, TRUE, 572, 408), Run(0, TRUE, 0, 44)>>,
      powers |-> <<4211, 240, 5, 1, 8, 13, 7, 5, 3, 1, 2, 14, 15, 6, 18, 3573>>,
      total_power |-> 8120],
     [samples |-> <<Run(0, TRUE, 512, 468), Run(0, TRUE, 0, 76), Run(0, TRUE, 588, 392), Run(0, TRUE, 0, 44)>>,
      powers |-> <<252, 145, 129, 150, 57, 5, 21, 5, 3, 2, 5, 2, 1, 3, 5, 1>>,
      total_power |-> 786],
     [samples |-> <<Run(0, TRUE, 512, 468), Run(0, TRUE, 0, 76), Run(0, TRUE, 588, 392), Run(1, TRUE, 0, 44)>>,
      powers |-> <<237, 150, 98, 118, 38, 3, 22, 2, 1, 4, 10, 0, 2, 5, 9, 0>>,
      total_power |-> 699],
     [samples |-> <<Run(1, TRUE, 512, 468), Run(0, TRUE, 0, 164), Run(0, TRUE, 676, 304), Run(12, TRUE, 0, 44)>>,
      powers |-> <<779, 2297, 660, 0, 61, 13, 15, 10, 17, 15, 1, 0, 17, 17, 1, 2>>,
      total_power |-> 3906],
     [samples |-> <<Run(1, TRUE, 512, 468), Run(15, TRUE, 0, 428), Run(Silent, FALSE, 0, 84)>>,
      powers |-> <<40, 3850, 69, 5, 1, 2, 4, 3, 9, 13, 10, 12, 19, 11, 9, 3199>>,
      total_power |-> 7259],
     [samples |-> <<Run(1, TRUE, 512, 468), Run(2, TRUE, 0, 484), Run(3, TRUE, 16, 28)>>,
      powers |-> <<57, 4533, 3719, 16, 18, 35, 65, 42, 30, 23, 17, 11, 7, 4, 3, 2>>,
      total_power |-> 8583],
     [samples |-> <<Run(1, TRUE, 512, 468), Run(15, TRUE, 0, 500), Run(Silent, FALSE, 0, 12)>>,
      powers |-> <<31, 3755, 78, 5, 3, 8, 16, 11, 10, 13, 18, 6, 12, 32, 140, 4273>>,
      total_power |-> 8412],
     [samples |-> <<Run(1, TRUE, 512, 468), Run(Silent, FALSE, 0, 512)>>,
      powers |-> <<36, 3821, 76, 4, 1, 5, 7, 2, 1, 1, 2, 2, 1, 1, 1, 1>>,
      total_power |-> 3964],
     [samples |-> <<Run(1, TRUE, 512, 468), Run(0, TRUE, 0, 512)>>,
      powers |-> <<5054, 4385, 255, 54, 11, 2, 3, 1, 0, 0, 0, 1, 1, 0, 0, 0>>,
      total_power |-> 9768],
     [samples |-> <<Run(1, TRUE, 512, 468), Run(2, TRUE, 0, 512)>>,
      powers |-> <<212, 5574, 4394, 84, 18, 5, 7, 5, 5, 4, 4, 0, 0, 0, 0, 0>>,
      total_power |-> 10314],
     [samples |-> <<Run(10, TRUE, 512, 468), Run(10, TRUE, 0, 208), Run(10, TRUE, 720, 260), Run(6, TRUE, 0, 44)>>,
      powers |-> <<5, 19, 12, 1, 14, 28, 32, 49, 20, 716, 8298, 676, 44, 52, 29, 22>>,
      total_power |-> 10015],
     [samples |-> <<Run(10, TRUE, 512, 468), Run(10, TRUE, 0, 208), Run(Silent, FALSE, 0, 304)>>,
      powers |-> <<2, 2, 5, 1, 4, 8, 25, 9, 27, 633, 3982, 645, 37, 14, 17, 15>>,
      total_power |-> 5426],
     [samples |-> <<Run(10, TRUE, 512, 468), Run(6, TRUE, 0, 252), Run(6, TRUE, 764, 216), Run(4, TRUE, 0, 44)>>,
      powers |-> <<0, 75, 36, 193, 73, 1042, 33, 1704, 6, 116, 4105, 121, 20, 9, 19, 6>>,
      total_power |-> 7556],
     [samples |-> <<Run(10, TRUE, 512, 468), Run(11, TRUE, 0, 368), Run(11, TRUE, 880, 100), Run(12, TRUE, 0, 44)>>,
      powers |-> <<5, 5, 7, 3, 11, 17, 29, 41, 178, 554, 4936, 1606, 549, 446, 119, 26>>,
      total_power |-> 8531],
     [samples |-> <<Run(10, TRUE, 512, 468), Run(10, TRUE, 0, 500), Run(Silent, FALSE, 0, 12)>>,
      powers |-> <<2, 2, 4, 4, 4, 3, 3, 2, 24, 202, 10043, 246, 44, 8, 2, 3>>,
      total_power |-> 10594],
     [samples |-> <<Run(10, TRUE, 512, 468), Run(Silent, FALSE, 0, 512)>>,
      powers |-> <<1, 1, 0, 0, 1, 4, 6, 3, 0, 39, 3863, 77, 5, 1, 4, 7>>,
      total_power |-> 4011],
     [samples |-> <<Run(10, TRUE, 512, 468), Run(10, TRUE, 0, 512)>>,
      powers |-> <<0, 1, 1, 2, 2, 2, 0, 6, 41, 255, 10422, 308, 70, 18, 3, 0>>,
      total_power |-> 11131],
     [samples |-> <<Run(10, TRUE, 512, 468), Run(11, TRUE, 0, 512)>>,
      powers |-> <<2, 4, 0, 1, 3, 5, 5, 8, 38, 210, 5582, 4430, 88, 21, 6, 7>>,
      total_power |-> 10409],
     [samples |-> <<Run(10, TRUE, 512, 468), Run(6, TRUE, 0, 512)>>,
      powers |-> <<9, 13, 18, 30, 66, 230, 4792, 174, 30, 12, 3629, 97, 10, 7, 13, 6>>,
      total_power |-> 9137],
     [samples |-> <<Run(11, TRUE, 512, 468), Run(12, TRUE, 0, 412), Run(12, TRUE, 924, 56), Run(13, TRUE, 0, 44)>>,
      powers |-> <<6, 8, 11, 6, 7, 16, 35, 55, 100, 149, 189, 3371, 2805, 299, 203, 27>>,
      total_power |-> 7288],
     [samples |-> <<Run(11, TRUE, 512, 468), Run(12, TRUE, 0, 512)>>,
      powers |-> <<1, 1, 0, 0, 1, 2, 1, 6, 23, 80, 290, 4200, 5357, 7, 5, 13>>,
      total_power |-> 9987],
     [samples |-> <<Run(12, TRUE, 512, 468), Run(13, TRUE, 0, 456), Run(13, TRUE, 968, 12), Run(14, TRUE, 0, 44)>>,
      powers |-> <<1, 1, 2, 2, 1, 0, 0, 0, 1, 3, 12, 236, 4081, 3729, 312, 29>>,
      total_power |-> 8412],
     [samples |-> <<Run(12, TRUE, 512, 468), Run(Silent, FALSE, 0, 512)>>,
      powers |-> <<1, 2, 1, 1, 1, 3, 3, 1, 1, 6, 35, 120, 4385, 9, 21, 14>>,
      total_power |-> 4607],
     [samples |-> <<Run(12, TRUE, 512, 468), Run(13, TRUE, 0, 512)>>,
      powers |-> <<1, 1, 0, 0, 1, 2, 1, 3, 12, 33, 82, 114, 4625, 4938, 88, 29>>,
      total_power |-> 9930],
     [samples |-> <<Run(13, TRUE, 512, 468), Run(14, TRUE, 0, 500), Run(15, TRUE, 32, 12)>>,
      powers |-> <<2, 2, 3, 3, 2, 1, 7, 10, 13, 17, 21, 10, 0, 5400, 3187, 47>>,
      total_power |-> 8725],
     [samples |-> <<Run(13, TRUE, 512, 468), Run(14, TRUE, 0, 512)>>,
      powers |-> <<1, 1, 1, 1, 2, 4, 1, 2, 7, 16, 30, 15, 11, 5712, 3497, 98>>,
      total_power |-> 9398],
     [samples |-> <<Run(14, TRUE, 512, 468), Run(15, TRUE, 0, 32), Run(15, TRUE, 544, 436), Run(0, TRUE, 0, 44)>>,
      powers |-> <<12, 12, 11, 11, 11, 12, 7, 3, 0, 1, 9, 45, 28, 6, 4551, 2592>>,
      total_power |-> 7312],
     [samples |-> <<Run(14, TRUE, 512, 468), Run(15, TRUE, 0, 512)>>,
      powers |-> <<0, 0, 0, 1, 1, 2, 0, 1, 3, 5, 9, 4, 14, 117, 5927, 3619>>,
      total_power |-> 9703],
     [samples |-> <<Run(15, TRUE, 512, 468), Run(0, TRUE, 0, 104), Run(0, TRUE, 616, 364), Run(15, TRUE, 0, 44)>>,
      powers |-> <<2163, 760, 222, 65, 9, 38, 19, 31, 29, 26, 19, 32, 8, 1, 37, 3659>>,
      total_power |-> 7119],
     [samples |-> <<Run(15, TRUE, 512, 468), Run(0, TRUE, 0, 16), Run(0, TRUE, 528, 452), Run(15, TRUE, 0, 44)>>,
      powers |-> <<4161, 223, 3, 12, 26, 31, 7, 4, 4, 8, 16, 32, 21, 9, 53, 3571>>,
      total_power |-> 8182],
     [samples |-> <<Run(15, TRUE, 512, 468), Run(0, TRUE, 0, 192), Run(0, TRUE, 704, 276), Run(15, TRUE, 0, 44)>>,
      powers |-> <<1128, 1303, 79, 60, 15, 35, 56, 17, 3, 30, 24, 12, 21, 16, 57, 3660>>,
      total_power |-> 6517],
     [samples |-> <<Run(15, TRUE, 512, 468), Run(0, TRUE, 0, 280), Run(0, TRUE, 792, 188), Run(15, TRUE, 0, 44)>>,
      powers |-> <<1132, 1354, 126, 18, 42, 32, 47, 13, 20, 12, 29, 18, 22, 4, 78, 3655>>,
      total_power |-> 6601],
     [samples |-> <<Run(15, TRUE, 512, 468), Run(0, TRUE, 0, 32), Run(0, TRUE, 544, 436), Run(0, TRUE, 0, 44)>>,
      powers |-> <<3755, 340, 21, 60, 71, 60, 6, 5, 3, 2, 6, 6, 3, 15, 105, 3630>>,
      total_power |-> 8090],
     [samples |-> <<Run(15, TRUE, 512, 468), Run(0, TRUE, 0, 368), Run(0, TRUE, 880, 100), Run(15, TRUE, 0, 44)>>,
      powers |-> <<2173, 866, 188, 91, 49, 28, 8, 35, 19, 2, 34, 41, 8, 11, 61, 3643>>,
      total_power |-> 7256],
     [samples |-> <<Run(15, TRUE, 512, 468), Run(0, TRUE, 0, 440), Run(0, TRUE, 952, 28), Run(15, TRUE, 0, 44)>>,
      powers |-> <<3708, 377, 2, 6, 4, 0, 15, 20, 22, 19, 18, 18, 10, 8, 65, 3446>>,
      total_power |-> 7738],
     [samples |-> <<Run(15, TRUE, 512, 468), Run(0, TRUE, 0, 456), Run(0, TRUE, 968, 12), Run(15, TRUE, 0, 44)>>,
      powers |-> <<4033, 311, 12, 8, 11, 9, 10, 4, 6, 14, 28, 32, 24, 10, 43, 3575>>,
      total_power |-> 8133],
     [samples |-> <<Run(15, TRUE, 512, 468), Run(0, TRUE, 0, 512)>>,
      powers |-> <<5034, 102, 56, 22, 10, 5, 3, 2, 2, 4, 9, 2, 0, 6, 82, 3927>>,
      total_power |-> 9266],
     [samples |-> <<Run(15, TRUE, 512, 468), Run(0, TRUE, 0, 76), Run(0, TRUE, 588, 392), Run(0, TRUE, 0, 44)>>,
      powers |-> <<2653, 540, 209, 160, 52, 4, 39, 12, 5, 1, 3, 1, 1, 2, 48, 4056>>,
      total_power |-> 7787],
     [samples |-> <<Run(15, TRUE, 512, 468), Run(0, TRUE, 0, 76), Run(0, TRUE, 588, 392), Run(1, TRUE, 0, 44)>>,
      powers |-> <<2748, 518, 175, 128, 34, 2, 38, 7, 1, 0, 6, 1, 1, 1, 41, 3991>>,
      total_power |-> 7692],
     [samples |-> <<Run(2, TRUE, 512, 468), Run(3, TRUE, 0, 16), Run(3, TRUE, 528, 452), Run(4, TRUE, 0, 44)>>,
      powers |-> <<14, 95, 4084, 4211, 13, 10, 20, 9, 20, 30, 32, 4, 2, 2, 2, 6>>,
      total_power |-> 8551],
     [samples |-> <<Run(2, TRUE, 512, 468), Run(3, TRUE, 0, 512)>>,
      powers |-> <<74, 280, 4166, 5344, 7, 6, 15, 12, 12, 10, 8, 1, 1, 1, 1, 1>>,
      total_power |-> 9940],
     [samples |-> <<Run(3, TRUE, 512, 468), Run(1, TRUE, 0, 384), Run(1, TRUE, 896, 84), Run(Silent, FALSE, 0, 44)>>,
      powers |-> <<142, 2719, 258, 4691, 14, 21, 9, 19, 10, 2, 5, 5, 1, 3, 5, 1>>,
      total_power |-> 7904],
     [samples |-> <<Run(3, TRUE, 512, 468), Run(1, TRUE, 0, 384), Run(1, TRUE, 896, 84), Run(15, TRUE, 0, 44)>>,
      powers |-> <<163, 2657, 235, 4745, 13, 21, 2, 17, 23, 13, 1, 8, 14, 9, 1, 9>>,
      total_power |-> 7932],
     [samples |-> <<Run(3, TRUE, 512, 468), Run(1, TRUE, 0, 512)>>,
      powers |-> <<78, 3733, 69, 5070, 26, 34, 41, 18, 7, 3, 3, 6, 4, 3, 3, 3>>,
      total_power |-> 9102],
     [samples |-> <<Run(3, TRUE, 512, 468), Run(4, TRUE, 0, 512)>>,
      powers |-> <<34, 85, 114, 4641, 4974, 84, 30, 23, 19, 14, 10, 1, 1, 1, 1, 1>>,
      total_power |-> 10031],
     [samples |-> <<Run(3, TRUE, 512, 468), Run(4, TRUE, 0, 60), Run(4, TRUE, 572, 408), Run(5, TRUE, 0, 44)>>,
      powers |-> <<1, 4, 30, 5651, 3791, 256, 21, 75, 95, 62, 21, 28, 14, 7, 4, 9>>,
      total_power |-> 10070],
     [samples |-> <<Run(4, TRUE, 512, 468), Run(5, TRUE, 0, 104), Run(5, TRUE, 616, 364), Run(6, TRUE, 0, 44)>>,
      powers |-> <<39, 79, 171, 322, 7834, 2322, 111, 310, 140, 6, 22, 8, 17, 17, 16, 10>>,
      total_power |-> 11423],
     [samples |-> <<Run(4, TRUE, 512, 468), Run(3, TRUE, 0, 340), Run(3, TRUE, 852, 128), Run(1, TRUE, 0, 44)>>,
      powers |-> <<5, 11, 76, 3805, 3305, 496, 87, 24, 28, 14, 0, 2, 0, 2, 1, 1>>,
      total_power |-> 7859],
     [samples |-> <<Run(4, TRUE, 512, 468), Run(3, TRUE, 0, 512)>>,
      powers |-> <<24, 31, 90, 4934, 4606, 116, 80, 32, 11, 3, 0, 2, 1, 0, 0, 1>>,
      total_power |-> 9933],
     [samples |-> <<Run(4, TRUE, 512, 468), Run(5, TRUE, 0, 512)>>,
      powers |-> <<18, 32, 13, 10, 5724, 3498, 94, 40, 23, 13, 7, 3, 2, 2, 2, 0>>,
      total_power |-> 9480],
     [samples |-> <<Run(5, TRUE, 512, 468), Run(6, TRUE, 0, 148), Run(6, TRUE, 660, 320), Run(7, TRUE, 0, 44)>>,
      powers |-> <<15, 9, 11, 25, 517, 8290, 980, 958, 342, 1, 78, 48, 24, 6, 4, 1>>,
      total_power |-> 11308],
     [samples |-> <<Run(5, TRUE, 512, 468), Run(6, TRUE, 0, 512)>>,
      powers |-> <<4, 8, 3, 12, 112, 5893, 3618, 107, 33, 14, 7, 6, 5, 5, 5, 1>>,
      total_power |-> 9832],
     [samples |-> <<Run(6, TRUE, 512, 468), Run(7, TRUE, 0, 192), Run(7, TRUE, 704, 276), Run(8, TRUE, 0, 44)>>,
      powers |-> <<9, 2, 3, 111, 110, 198, 1034, 1912, 886, 27, 50, 21, 14, 0, 24, 8>>,
      total_power |-> 4409],
     [samples |-> <<Run(6, TRUE, 512, 468), Run(4, TRUE, 0, 296), Run(4, TRUE, 808, 172), Run(3, TRUE, 0, 44)>>,
      powers |-> <<15, 1, 77, 658, 2041, 1572, 5424, 52, 124, 15, 32, 6, 10, 5, 6, 2>>,
      total_power |-> 10040],
     [samples |-> <<Run(6, TRUE, 512, 468), Run(4, TRUE, 0, 512)>>,
      powers |-> <<18, 37, 4, 9, 5004, 183, 5127, 162, 29, 11, 12, 9, 4, 2, 2, 5>>,
      total_power |-> 10620],
     [samples |-> <<Run(6, TRUE, 512, 468), Run(7, TRUE, 0, 512)>>,
      powers |-> <<1, 4, 3, 13, 58, 266, 4407, 5087, 47, 9, 4, 9, 9, 8, 7, 0>>,
      total_power |-> 9933],
     [samples |-> <<Run(7, TRUE, 512, 468), Run(8, TRUE, 0, 236), Run(8, TRUE, 748, 232), Run(9, TRUE, 0, 44)>>,
      powers |-> <<4, 2, 5, 40, 32, 124, 408, 2394, 3926, 26, 105, 1, 22, 6, 24, 1>>,
      total_power |-> 7121],
     [samples |-> <<Run(7, TRUE, 512, 468), Run(8, TRUE, 0, 512)>>,
      powers |-> <<2, 5, 4, 12, 36, 96, 214, 4315, 5371, 10, 18, 14, 12, 11, 8, 1>>,
      total_power |-> 10127],
     [samples |-> <<Run(8, TRUE, 512, 468), Run(9, TRUE, 0, 280), Run(9, TRUE, 792, 188), Run(10, TRUE, 0, 44)>>,
      powers |-> <<1, 1, 6, 9, 24, 16, 106, 82, 5131, 3092, 837, 22, 31, 43, 14, 1>>,
      total_power |-> 9415],
     [samples |-> <<Run(8, TRUE, 512, 468), Run(9, TRUE, 0, 512)>>,
      powers |-> <<1, 3, 1, 6, 15, 33, 35, 31, 5155, 4215, 259, 33, 24, 17, 12, 4>>,
      total_power |-> 9843],
     [samples |-> <<Run(9, TRUE, 512, 468), Run(10, TRUE, 0, 324), Run(10, TRUE, 836, 144), Run(11, TRUE, 0, 44)>>,
      powers |-> <<2, 5, 2, 17, 12, 2, 35, 37, 174, 6853, 754, 390, 280, 27, 38, 4>>,
      total_power |-> 8632],
     [samples |-> <<Run(9, TRUE, 512, 468), Run(10, TRUE, 0, 512)>>,
      powers |-> <<2, 3, 0, 1, 5, 10, 12, 7, 44, 5963, 2813, 118, 46, 24, 13, 5>>,
      total_power |-> 9066],
     [samples |-> <<Run(15, TRUE, 0, 484), Run(0, TRUE, 528, 452), Run(15, TRUE, 0, 44)>>,
      powers |-> <<4106, 236, 2, 4, 11, 11, 4, 4, 5, 9, 19, 10, 15, 28, 106, 3852>>,
      total_power |-> 8422],
     [samples |-> <<Run(15, TRUE, 0, 484), Run(0, TRUE, 16, 496)>>,
      powers |-> <<5074, 95, 88, 45, 28, 20, 0, 0, 1, 2, 6, 2, 4, 19, 117, 4172>>,
      total_power |-> 9672],
     [samples |-> <<Run(2, TRUE, 0, 484), Run(3, TRUE, 528, 452), Run(4, TRUE, 0, 44)>>,
      powers |-> <<50, 115, 3794, 4081, 10, 5, 56, 33, 33, 32, 27, 3, 2, 2, 2, 5>>,
      total_power |-> 8249],
     [samples |-> <<Run(2, TRUE, 0, 484), Run(3, TRUE, 16, 496)>>,
      powers |-> <<36, 138, 4208, 5412, 11, 3, 59, 33, 18, 10, 5, 4, 3, 2, 2, 0>>,
      total_power |-> 9945],
     [samples |-> <<Run(14, TRUE, 0, 500), Run(15, TRUE, 544, 436), Run(0, TRUE, 0, 44)>>,
      powers |-> <<12, 10, 11, 12, 13, 13, 1, 5, 10, 13, 15, 45, 70, 104, 4658, 2411>>,
      total_power |-> 7401],
     [samples |-> <<Run(14, TRUE, 0, 500), Run(15, TRUE, 32, 480)>>,
      powers |-> <<3, 3, 0, 0, 1, 1, 13, 17, 22, 29, 39, 10, 29, 125, 5419, 3574>>,
      total_power |-> 9287],
     [samples |-> <<Run(15, TRUE, 0, 500), Run(0, TRUE, 544, 436), Run(0, TRUE, 0, 44)>>,
      powers |-> <<3786, 376, 8, 37, 49, 41, 3, 6, 8, 9, 12, 15, 24, 52, 179, 4249>>,
      total_power |-> 8855],
     [samples |-> <<Run(15, TRUE, 0, 500), Run(0, TRUE, 32, 480)>>,
      powers |-> <<4845, 129, 62, 25, 12, 6, 9, 7, 6, 5, 5, 4, 12, 37, 155, 4557>>,
      total_power |-> 9876],
     [samples |-> <<Run(0, TRUE, 0, 528), Run(15, TRUE, 572, 408), Run(0, TRUE, 0, 44)>>,
      powers |-> <<5940, 15, 41, 7, 2, 4, 5, 4, 2, 4, 10, 22, 46, 44, 0, 3033>>,
      total_power |-> 9179],
     [samples |-> <<Run(0, TRUE, 0, 528), Run(15, TRUE, 60, 452)>>,
      powers |-> <<5494, 48, 82, 35, 15, 6, 1, 1, 1, 4, 8, 1, 1, 10, 91, 4002>>,
      total_power |-> 9800],
     [samples |-> <<Run(3, TRUE, 0, 528), Run(4, TRUE, 572, 408), Run(5, TRUE, 0, 44)>>,
      powers |-> <<149, 184, 37, 6867, 3118, 282, 92, 113, 83, 33, 4, 17, 8, 4, 3, 7>>,
      total_power |-> 11000],
     [samples |-> <<Run(3, TRUE, 0, 528), Run(4, TRUE, 60, 452)>>,
      powers |-> <<53, 119, 25, 5638, 4179, 157, 129, 49, 18, 5, 1, 14, 8, 4, 2, 5>>,
      total_power |-> 10406],
     [samples |-> <<Run(0, TRUE, 0, 544), Run(0, TRUE, 588, 392), Run(0, TRUE, 0, 44)>>,
      powers |-> <<16013, 539, 54, 10, 7, 10, 6, 3, 2, 2, 2, 1, 1, 0, 0, 0>>,
      total_power |-> 16649],
     [samples |-> <<Run(0, TRUE, 0, 544), Run(0, TRUE, 588, 392), Run(1, TRUE, 0, 44)>>,
      powers |-> <<16101, 507, 38, 3, 8, 16, 12, 6, 3, 2, 2, 1, 1, 1, 1, 0>>,
      total_power |-> 16703],
     [samples |-> <<Run(0, TRUE, 0, 544), Run(0, TRUE, 76, 436)>>,
      powers |-> <<162, 151, 176, 47, 17, 15, 13, 8, 8, 10, 12, 2, 3, 4, 6, 2>>,
      total_power |-> 635],
     [samples |-> <<Run(15, TRUE, 0, 544), Run(0, TRUE, 588, 392), Run(0, TRUE, 0, 44)>>,
      powers |-> <<3022, 474, 73, 71, 28, 4, 4, 0, 0, 1, 3, 14, 36, 83, 253, 5130>>,
      total_power |-> 9195],
     [samples |-> <<Run(15, TRUE, 0, 544), Run(0, TRUE, 588, 392), Run(1, TRUE, 0, 44)>>,
      powers |-> <<3110, 435, 56, 54, 19, 4, 5, 1, 2, 4, 6, 21, 44, 88, 251, 5078>>,
      total_power |-> 9176],
     [samples |-> <<Run(15, TRUE, 0, 544), Run(0, TRUE, 76, 436)>>,
      powers |-> <<4148, 266, 18, 1, 4, 10, 7, 3, 2, 3, 5, 26, 47, 97, 278, 5019>>,
      total_power |-> 9936],
     [samples |-> <<Run(15, TRUE, 0, 572), Run(0, TRUE, 616, 364), Run(15, TRUE, 0, 44)>>,
      powers |-> <<2631, 510, 44, 16, 4, 10, 4, 2, 1, 5, 18, 18, 64, 152, 357, 5228>>,
      total_power |-> 9065],
     [samples |-> <<Run(15, TRUE, 0, 572), Run(0, TRUE, 104, 408)>>,
      powers |-> <<3569, 400, 2, 21, 34, 31, 13, 18, 18, 15, 13, 17, 38, 102, 327, 5452>>,
      total_power |-> 10069],
     [samples |-> <<Run(4, TRUE, 0, 572), Run(5, TRUE, 616, 364), Run(6, TRUE, 0, 44)>>,
      powers |-> <<13, 3, 179, 390, 6603, 2699, 190, 181, 38, 9, 26, 5, 7, 7, 6, 8>>,
      total_power |-> 10364],
     [samples |-> <<Run(4, TRUE, 0, 572), Run(5, TRUE, 104, 408)>>,
      powers |-> <<16, 3, 196, 263, 6749, 3203, 179, 4, 10, 29, 33, 4, 9, 10, 6, 6>>,
      total_power |-> 10719],
     [samples |-> <<Run(0, TRUE, 0, 588), Run(0, TRUE, 632, 348), Run(10, TRUE, 0, 44)>>,
      powers |-> <<15280, 676, 98, 23, 3, 0, 1, 4, 8, 10, 11, 9, 8, 7, 6, 5>>,
      total_power |-> 16149],
     [samples |-> <<Run(0, TRUE, 0, 588), Run(1, TRUE, 632, 348), Run(0, TRUE, 0, 44)>>,
      powers |-> <<8802, 1736, 66, 180, 40, 11, 10, 8, 6, 19, 20, 12, 8, 4, 3, 3>>,
      total_power |-> 10929],
     [samples |-> <<Run(0, TRUE, 0, 588), Run(0, TRUE, 120, 392)>>,
      powers |-> <<622, 546, 24, 26, 47, 35, 20, 13, 6, 6, 11, 3, 7, 9, 5, 6>>,
      total_power |-> 1386],
     [samples |-> <<Run(0, TRUE, 0, 588), Run(1, TRUE, 120, 392)>>,
      powers |-> <<7017, 3054, 33, 46, 49, 23, 23, 11, 1, 2, 9, 1, 6, 7, 4, 5>>,
      total_power |-> 10290],
     [samples |-> <<Run(15, TRUE, 0, 60), Run(15, TRUE, 572, 408), Run(0, TRUE, 0, 104), Run(0, TRUE, 616, 364), Run(15, TRUE, 0, 44)>>,
      powers |-> <<2072, 785, 250, 85, 9, 21, 14, 20, 12, 7, 3, 27, 12, 7, 9, 3366>>,
      total_power |-> 6698],
     [samples |-> <<Run(15, TRUE, 0, 60), Run(15, TRUE, 572, 408), Run(0, TRUE, 0, 512)>>,
      powers |-> <<5091, 94, 72, 34, 21, 14, 2, 2, 2, 2, 1, 9, 8, 3, 30, 3614>>,
      total_power |-> 8999],
     [samples |-> <<Run(15, TRUE, 0, 60), Run(0, TRUE, 104, 876), Run(15, TRUE, 0, 44)>>,
      powers |-> <<14411, 685, 18, 17, 45, 32, 2, 4, 10, 20, 39, 60, 53, 34, 15, 5>>,
      total_power |-> 15446],
     [samples |-> <<Run(15, TRUE, 512, 60), Run(0, TRUE, 104, 876), Run(15, TRUE, 0, 44)>>,
      powers |-> <<14578, 652, 17, 27, 61, 49, 7, 0, 5, 20, 48, 85, 86, 73, 53, 31>>,
      total_power |-> 15790],
     [samples |-> <<Run(4, TRUE, 0, 60), Run(4, TRUE, 572, 408), Run(5, TRUE, 0, 104), Run(5, TRUE, 616, 364), Run(6, TRUE, 0, 44)>>,
      powers |-> <<64, 153, 33, 83, 6222, 3504, 409, 699, 423, 99, 2, 19, 23, 23, 27, 3>>,
      total_power |-> 11785],
     [samples |-> <<Run(4, TRUE, 0, 60), Run(4, TRUE, 572, 408), Run(5, TRUE, 0, 512)>>,
      powers |-> <<56, 95, 20, 36, 4372, 2386, 353, 266, 195, 107, 38, 4, 2, 5, 8, 7>>,
      total_power |-> 7949],
     [samples |-> <<Run(4, TRUE, 0, 60), Run(5, TRUE, 104, 876), Run(6, TRUE, 0, 44)>>,
      powers |-> <<63, 62, 143, 124, 10, 12758, 71, 29, 105, 86, 29, 1, 3, 3, 6, 8>>,
      total_power |-> 13502],
     [samples |-> <<Run(4, TRUE, 512, 60), Run(5, TRUE, 104, 876), Run(6, TRUE, 0, 44)>>,
      powers |-> <<69, 68, 140, 176, 55, 10955, 376, 32, 42, 70, 44, 3, 1, 4, 8, 14>>,
      total_power |-> 12055],
     [samples |-> <<Run(0, TRUE, 0, 616), Run(15, TRUE, 660, 320), Run(0, TRUE, 0, 44)>>,
      powers |-> <<7961, 72, 1, 4, 0, 4, 5, 3, 1, 3, 10, 26, 2, 73, 140, 1878>>,
      total_power |-> 10182],
     [samples |-> <<Run(0, TRUE, 0, 616), Run(15, TRUE, 148, 364)>>,
      powers |-> <<7451, 44, 10, 8, 14, 7, 2, 2, 1, 1, 7, 8, 43, 67, 9, 2728>>,
      total_power |-> 10402],
     [samples |-> <<Run(5, TRUE, 0, 616), Run(6, TRUE, 660, 320), Run(7, TRUE, 0, 44)>>,
      powers |-> <<4, 8, 35, 119, 183, 4705, 979, 334, 126, 23, 10, 1, 1, 1, 2, 4>>,
      total_power |-> 6532],
     [samples |-> <<Run(5, TRUE, 0, 616), Run(6, TRUE, 148, 364)>>,
      powers |-> <<2, 43, 33, 280, 797, 7524, 4560, 6, 103, 89, 27, 16, 5, 9, 10, 9>>,
      total_power |-> 13512],
     [samples |-> <<Run(0, TRUE, 0, 632), Run(10, TRUE, 676, 304), Run(Silent, FALSE, 0, 44)>>,
      powers |-> <<7622, 60, 3, 8, 16, 30, 30, 4, 62, 189, 1758, 186, 88, 6, 34, 15>>,
      total_power |-> 10110],
     [samples |-> <<Run(0, TRUE, 0, 632), Run(10, TRUE, 676, 304), Run(10, TRUE, 0, 44)>>,
      powers |-> <<7505, 81, 1, 26, 22, 12, 23, 2, 116, 278, 1603, 273, 133, 5, 50, 17>>,
      total_power |-> 10148],
     [samples |-> <<Run(0, TRUE, 0, 632), Run(10, TRUE, 164, 348)>>,
      powers |-> <<7691, 82, 4, 30, 33, 15, 10, 49, 114, 53, 2625, 20, 76, 35, 2, 3>>,
      total_power |-> 10842],
     [samples |-> <<Run(1, TRUE, 0, 632), Run(0, TRUE, 676, 304), Run(12, TRUE, 0, 44)>>,
      powers |-> <<2913, 3039, 678, 21, 53, 22, 11, 11, 23, 25, 0, 1, 15, 23, 3, 3>>,
      total_power |-> 6841],
     [samples |-> <<Run(1, TRUE, 0, 632), Run(0, TRUE, 164, 348)>>,
      powers |-> <<2981, 7768, 242, 26, 7, 6, 1, 0, 0, 1, 1, 1, 1, 1, 1, 1>>,
      total_power |-> 11036],
     [samples |-> <<Run(15, TRUE, 0, 660), Run(0, TRUE, 704, 276), Run(15, TRUE, 0, 44)>>,
      powers |-> <<1468, 589, 18, 20, 8, 9, 5, 3, 4, 2, 17, 45, 50, 16, 336, 6628>>,
      total_power |-> 9218],
     [samples |-> <<Run(15, TRUE, 0, 660), Run(0, TRUE, 192, 320)>>,
      powers |-> <<2209, 691, 111, 21, 10, 31, 23, 7, 5, 16, 14, 27, 25, 5, 262, 6815>>,
      total_power |-> 10273],
     [samples |-> <<Run(6, TRUE, 0, 660), Run(7, TRUE, 704, 276), Run(8, TRUE, 0, 44)>>,
      powers |-> <<8, 17, 48, 6, 66, 113, 7199, 2763, 377, 92, 11, 12, 6, 11, 3, 7>>,
      total_power |-> 10739],
     [samples |-> <<Run(6, TRUE, 0, 660), Run(7, TRUE, 192, 320)>>,
      powers |-> <<7, 46, 85, 59, 26, 629, 4135, 3735, 218, 157, 23, 9, 24, 12, 3, 2>>,
      total_power |-> 9169],
     [samples |-> <<Run(0, TRUE, 0, 676), Run(12, TRUE, 720, 260), Run(Silent, FALSE, 0, 44)>>,
      powers |-> <<9100, 223, 30, 40, 1, 11, 2, 10, 1, 34, 10, 543, 1186, 520, 3, 35>>,
      total_power |-> 11748],
     [samples |-> <<Run(0, TRUE, 0, 676), Run(12, TRUE, 208, 304)>>,
      powers |-> <<8859, 188, 19, 56, 28, 2, 2, 43, 24, 15, 126, 632, 2071, 344, 64, 13>>,
      total_power |-> 12485],
     [samples |-> <<Run(10, TRUE, 0, 676), Run(10, TRUE, 720, 260), Run(6, TRUE, 0, 44)>>,
      powers |-> <<4, 4, 4, 6, 12, 25, 46, 36, 4, 77, 9757, 303, 30, 1, 5, 5>>,
      total_power |-> 10319],
     [samples |-> <<Run(10, TRUE, 0, 676), Run(10, TRUE, 208, 292), Run(Silent, FALSE, 0, 12)>>,
      powers |-> <<2, 2, 6, 11, 0, 19, 25, 15, 54, 32, 15904, 756, 70, 54, 74, 29>>,
      total_power |-> 17054],
     [samples |-> <<Run(10, TRUE, 0, 676), Run(Silent, FALSE, 0, 304)>>,
      powers |-> <<1, 2, 4, 3, 1, 12, 24, 27, 3, 312, 7065, 223, 0, 37, 19, 10>>,
      total_power |-> 7742],
     [samples |-> <<Run(10, TRUE, 0, 676), Run(10, TRUE, 208, 304)>>,
      powers |-> <<0, 4, 6, 3, 2, 10, 11, 24, 63, 28, 16336, 693, 85, 34, 81, 42>>,
      total_power |-> 17424],
     [samples |-> <<Run(0, TRUE, 0, 704), Run(15, TRUE, 748, 232), Run(0, TRUE, 0, 44)>>,
      powers |-> <<10204, 344, 40, 4, 2, 3, 6, 4, 1, 1, 10, 9, 38, 3, 297, 956>>,
      total_power |-> 11922],
     [samples |-> <<Run(0, TRUE, 0, 704), Run(15, TRUE, 236, 276)>>,
      powers |-> <<9637, 317, 65, 20, 5, 8, 2, 0, 3, 2, 6, 22, 10, 59, 193, 1631>>,
      total_power |-> 11979],
     [samples |-> <<Run(7, TRUE, 0, 704), Run(8, TRUE, 748, 232), Run(9, TRUE, 0, 44)>>,
      powers |-> <<7, 39, 43, 24, 59, 93, 448, 6083, 2577, 474, 69, 63, 10, 20, 18, 28>>,
      total_power |-> 10054],
     [samples |-> <<Run(7, TRUE, 0, 704), Run(8, TRUE, 236, 276)>>,
      powers |-> <<5, 33, 42, 3, 101, 60, 245, 8617, 2512, 530, 54, 18, 47, 4, 24, 20>>,
      total_power |-> 12318],
     [samples |-> <<Run(10, TRUE, 0, 720), Run(6, TRUE, 764, 216), Run(4, TRUE, 0, 44)>>,
      powers |-> <<4, 14, 38, 40, 61, 258, 821, 747, 12, 259, 8162, 92, 48, 44, 13, 8>>,
      total_power |-> 10622],
     [samples |-> <<Run(10, TRUE, 0, 720), Run(6, TRUE, 252, 260)>>,
      powers |-> <<19, 4, 32, 31, 76, 283, 1472, 106, 1, 78, 7101, 118, 85, 48, 10, 12>>,
      total_power |-> 9477],
     [samples |-> <<Run(12, TRUE, 0, 720), Run(Silent, FALSE, 0, 260)>>,
      powers |-> <<1, 1, 2, 1, 3, 4, 3, 8, 17, 4, 87, 475, 10700, 484, 7, 1>>,
      total_power |-> 11799],
     [samples |-> <<Run(15, TRUE, 0, 748), Run(0, TRUE, 792, 188), Run(15, TRUE, 0, 44)>>,
      powers |-> <<635, 399, 24, 2, 19, 8, 5, 3, 3, 4, 15, 43, 25, 119, 80, 7966>>,
      total_power |-> 9350],
     [samples |-> <<Run(15, TRUE, 0, 748), Run(0, TRUE, 280, 232)>>,
      powers |-> <<1161, 681, 16, 58, 2, 31, 13, 10, 12, 8, 16, 18, 15, 88, 40, 8095>>,
      total_power |-> 10263],
     [samples |-> <<Run(8, TRUE, 0, 748), Run(9, TRUE, 792, 188), Run(10, TRUE, 0, 44)>>,
      powers |-> <<16, 16, 50, 6, 33, 43, 20, 673, 13447, 472, 409, 88, 8, 47, 27, 30>>,
      total_power |-> 15386],
     [samples |-> <<Run(8, TRUE, 0, 748), Run(9, TRUE, 280, 232)>>,
      powers |-> <<12, 20, 40, 5, 59, 18, 78, 553, 13473, 1058, 676, 6, 97, 1, 42, 11>>,
      total_power |-> 16148],
     [samples |-> <<Run(0, TRUE, 0, 76), Run(0, TRUE, 588, 392), Run(0, TRUE, 0, 120), Run(0, TRUE, 632, 348), Run(10, TRUE, 0, 44)>>,
      powers |-> <<147, 46, 1141, 542, 94, 21, 36, 37, 82, 66, 13, 5, 4, 14, 23, 1>>,
      total_power |-> 2270],
     [samples |-> <<Run(0, TRUE, 0, 76), Run(0, TRUE, 588, 392), Run(1, TRUE, 0, 120), Run(1, TRUE, 632, 348), Run(0, TRUE, 0, 44)>>,
      powers |-> <<3782, 1703, 649, 340, 82, 54, 11, 4, 6, 4, 0, 17, 11, 7, 3, 5>>,
      total_power |-> 6679],
     [samples |-> <<Run(0, TRUE, 0, 76), Run(0, TRUE, 588, 392), Run(0, TRUE, 0, 512)>>,
      powers |-> <<12312, 1251, 455, 293, 103, 15, 15, 17, 19, 11, 3, 2, 4, 7, 7, 4>>,
      total_power |-> 14519],
     [samples |-> <<Run(0, TRUE, 0, 76), Run(0, TRUE, 588, 392), Run(1, TRUE, 0, 512)>>,
      powers |-> <<3775, 2016, 650, 286, 72, 2, 31, 28, 22, 9, 1, 3, 8, 11, 9, 2>>,
      total_power |-> 6924],
     [samples |-> <<Run(0, TRUE, 0, 76), Run(0, TRUE, 120, 860), Run(10, TRUE, 0, 44)>>,
      powers |-> <<15233, 671, 96, 23, 3, 0, 1, 4, 8, 10, 11, 9, 8, 7, 6, 5>>,
      total_power |-> 16096],
     [samples |-> <<Run(0, TRUE, 0, 76), Run(1, TRUE, 120, 860), Run(0, TRUE, 0, 44)>>,
      powers |-> <<75, 8272, 274, 4, 47, 48, 8, 6, 2, 0, 4, 6, 3, 1, 1, 1>>,
      total_power |-> 8751],
     [samples |-> <<Run(0, TRUE, 512, 76), Run(0, TRUE, 120, 860), Run(10, TRUE, 0, 44)>>,
      powers |-> <<10979, 1510, 112, 40, 48, 22, 22, 16, 2, 8, 22, 16, 4, 0, 7, 15>>,
      total_power |-> 12823],
     [samples |-> <<Run(0, TRUE, 512, 76), Run(1, TRUE, 120, 860), Run(0, TRUE, 0, 44)>>,
      powers |-> <<102, 9782, 21, 107, 128, 42, 1, 4, 6, 13, 14, 2, 0, 2, 4, 4>>,
      total_power |-> 10232],
     [samples |-> <<Run(6, TRUE, 0, 764), Run(4, TRUE, 808, 172), Run(3, TRUE, 0, 44)>>,
      powers |-> <<10, 0, 12, 395, 966, 301, 6949, 114, 51, 54, 35, 14, 3, 6, 3, 3>>,
      total_power |-> 8915],
     [samples |-> <<Run(6, TRUE, 0, 764), Run(4, TRUE, 296, 216)>>,
      powers |-> <<3, 29, 14, 426, 1633, 791, 8027, 268, 110, 54, 50, 41, 6, 16, 8, 11>>,
      total_power |-> 11487],
     [samples |-> <<Run(0, TRUE, 0, 792), Run(15, TRUE, 836, 144), Run(0, TRUE, 0, 44)>>,
      powers |-> <<12633, 583, 11, 8, 5, 3, 6, 3, 2, 0, 10, 2, 19, 89, 198, 324>>,
      total_power |-> 13897],
     [samples |-> <<Run(0, TRUE, 0, 792), Run(15, TRUE, 324, 188)>>,
      powers |-> <<12016, 617, 40, 30, 2, 8, 1, 2, 1, 5, 5, 19, 24, 15, 321, 779>>,
      total_power |-> 13883],
     [samples |-> <<Run(9, TRUE, 0, 792), Run(10, TRUE, 836, 144), Run(11, TRUE, 0, 44)>>,
      powers |-> <<1, 8, 4, 5, 5, 11, 7, 36, 23, 16021, 215, 198, 94, 63, 6, 34>>,
      total_power |-> 16731],
     [samples |-> <<Run(9, TRUE, 0, 792), Run(10, TRUE, 324, 188)>>,
      powers |-> <<7, 3, 10, 8, 19, 17, 26, 145, 173, 15412, 200, 652, 85, 57, 78, 20>>,
      total_power |-> 16910],
     [samples |-> <<Run(4, TRUE, 0, 808), Run(3, TRUE, 852, 128), Run(1, TRUE, 0, 44)>>,
      powers |-> <<64, 147, 309, 885, 11193, 1119, 31, 44, 4, 55, 25, 11, 10, 2, 8, 2>>,
      total_power |-> 13908],
     [samples |-> <<Run(4, TRUE, 0, 808), Run(3, TRUE, 340, 172)>>,
      powers |-> <<12, 85, 406, 759, 14161, 705, 36, 87, 3, 28, 19, 9, 11, 0, 5, 1>>,
      total_power |-> 16328],
     [samples |-> <<Run(10, TRUE, 0, 836), Run(11, TRUE, 880, 100), Run(12, TRUE, 0, 44)>>,
      powers |-> <<2, 2, 2, 1, 0, 2, 1, 5, 26, 125, 9471, 249, 36, 61, 55, 9>>,
      total_power |-> 10047],
     [samples |-> <<Run(10, TRUE, 0, 836), Run(11, TRUE, 368, 144)>>,
      powers |-> <<8, 10, 6, 11, 17, 17, 24, 108, 74, 101, 12833, 232, 561, 248, 8, 49>>,
      total_power |-> 14306],
     [samples |-> <<Run(15, TRUE, 0, 836), Run(0, TRUE, 880, 100), Run(15, TRUE, 0, 44)>>,
      powers |-> <<145, 115, 42, 27, 19, 7, 4, 3, 2, 8, 13, 16, 80, 79, 34, 9157>>,
      total_power |-> 9751],
     [samples |-> <<Run(15, TRUE, 0, 836), Run(0, TRUE, 368, 144)>>,
      powers |-> <<442, 379, 79, 1, 24, 30, 1, 16, 14, 4, 16, 6, 46, 45, 50, 9209>>,
      total_power |-> 10361],
     [samples |-> <<Run(3, TRUE, 0, 852), Run(1, TRUE, 384, 128)>>,
      powers |-> <<407, 281, 216, 16693, 147, 139, 19, 16, 8, 8, 14, 1, 5, 9, 3, 2>>,
      total_power |-> 17967],
     [samples |-> <<Run(3, TRUE, 0, 852), Run(1, TRUE, 896, 84), Run(Silent, FALSE, 0, 44)>>,
      powers |-> <<65, 54, 263, 16707, 117, 131, 8, 4, 9, 1, 2, 4, 1, 1, 1, 0>>,
      total_power |-> 17368],
     [samples |-> <<Run(3, TRUE, 0, 852), Run(1, TRUE, 896, 84), Run(15, TRUE, 0, 44)>>,
      powers |-> <<77, 61, 290, 16627, 121, 115, 2, 14, 17, 4, 10, 22, 11, 4, 8, 13>>,
      total_power |-> 17396],
     [samples |-> <<Run(Silent, FALSE, 0, 864), Run(0, TRUE, 396, 116)>>,
      powers |-> <<280, 232, 83, 18, 0, 7, 8, 2, 0, 2, 3, 1, 0, 1, 1, 0>>,
      total_power |-> 639],
     [samples |-> <<Run(Silent, FALSE, 0, 864), Run(15, TRUE, 396, 116)>>,
      powers |-> <<0, 3, 3, 1, 1, 5, 5, 0, 3, 14, 16, 0, 25, 112, 227, 292>>,
      total_power |-> 707],
     [samples |-> <<Run(Silent, FALSE, 0, 864), Run(0, TRUE, 908, 72), Run(1, TRUE, 0, 44)>>,
      powers |-> <<83, 45, 18, 31, 42, 33, 6, 0, 3, 5, 2, 1, 2, 2, 1, 0>>,
      total_power |-> 274],
     [samples |-> <<Run(Silent, FALSE, 0, 864), Run(15, TRUE, 908, 72), Run(0, TRUE, 0, 44)>>,
      powers |-> <<6, 5, 13, 12, 5, 1, 7, 8, 3, 3, 13, 33, 36, 36, 41, 52>>,
      total_power |-> 275],
     [samples |-> <<Run(0, TRUE, 0, 880), Run(15, TRUE, 412, 100)>>,
      powers |-> <<14551, 667, 31, 2, 11, 9, 1, 0, 2, 5, 4, 4, 32, 95, 171, 225>>,
      total_power |-> 15811],
     [samples |-> <<Run(0, TRUE, 0, 880), Run(15, TRUE, 924, 56), Run(0, TRUE, 0, 44)>>,
      powers |-> <<15210, 566, 25, 3, 5, 2, 5, 4, 0, 2, 10, 16, 14, 13, 16, 23>>,
      total_power |-> 15915],
     [samples |-> <<Run(11, TRUE, 0, 880), Run(12, TRUE, 412, 100)>>,
      powers |-> <<5, 10, 9, 5, 3, 11, 46, 42, 3, 68, 612, 9972, 176, 325, 223, 34>>,
      total_power |-> 11545],
     [samples |-> <<Run(11, TRUE, 0, 880), Run(12, TRUE, 924, 56), Run(13, TRUE, 0, 44)>>,
      powers |-> <<1, 2, 2, 1, 2, 4, 8, 20, 25, 22, 180, 12824, 54, 125, 144, 29>>,
      total_power |-> 13443],
     [samples |-> <<Run(1, TRUE, 0, 896), Run(15, TRUE, 428, 72), Run(Silent, FALSE, 0, 12)>>,
      powers |-> <<104, 9883, 206, 4, 16, 38, 25, 8, 2, 3, 9, 31, 59, 88, 109, 113>>,
      total_power |-> 10698],
     [samples |-> <<Run(1, TRUE, 0, 896), Run(Silent, FALSE, 0, 84)>>,
      powers |-> <<102, 9904, 200, 4, 11, 23, 9, 1, 2, 4, 3, 1, 1, 1, 1, 1>>,
      total_power |-> 10269],
     [samples |-> <<Run(0, TRUE, 0, 908), Run(1, TRUE, 952, 28), Run(2, TRUE, 0, 44)>>,
      powers |-> <<15907, 518, 34, 1, 14, 30, 28, 16, 6, 1, 1, 3, 4, 4, 3, 1>>,
      total_power |-> 16572],
     [samples |-> <<Run(0, TRUE, 0, 908), Run(1, TRUE, 440, 72)>>,
      powers |-> <<13294, 1132, 252, 101, 46, 25, 5, 0, 3, 9, 10, 4, 1, 0, 1, 3>>,
      total_power |-> 14887],
     [samples |-> <<Run(15, TRUE, 0, 908), Run(0, TRUE, 952, 28), Run(15, TRUE, 0, 44)>>,
      powers |-> <<2, 3, 3, 2, 0, 0, 3, 6, 11, 20, 28, 24, 8, 22, 254, 9860>>,
      total_power |-> 10248],
     [samples |-> <<Run(15, TRUE, 0, 908), Run(0, TRUE, 440, 72)>>,
      powers |-> <<104, 86, 49, 28, 14, 6, 4, 3, 1, 0, 4, 9, 2, 12, 213, 10168>>,
      total_power |-> 10703],
     [samples |-> <<Run(12, TRUE, 0, 924), Run(13, TRUE, 968, 12), Run(14, TRUE, 0, 44)>>,
      powers |-> <<3, 4, 3, 2, 1, 1, 1, 4, 20, 62, 142, 445, 16882, 51, 98, 71>>,
      total_power |-> 17789],
     [samples |-> <<Run(12, TRUE, 0, 924), Run(13, TRUE, 456, 56)>>,
      powers |-> <<2, 3, 5, 6, 7, 6, 0, 4, 29, 92, 199, 534, 16845, 103, 126, 76>>,
      total_power |-> 18036],
     [samples |-> <<Run(15, TRUE, 0, 924), Run(0, TRUE, 968, 12), Run(15, TRUE, 0, 44)>>,
      powers |-> <<2, 1, 0, 0, 2, 3, 6, 8, 11, 14, 16, 9, 7, 44, 289, 10040>>,
      total_power |-> 10453],
     [samples |-> <<Run(15, TRUE, 0, 924), Run(0, TRUE, 456, 56)>>,
      powers |-> <<63, 65, 60, 52, 41, 29, 10, 3, 3, 10, 17, 11, 5, 35, 274, 10090>>,
      total_power |-> 10767],
     [samples |-> <<Run(Silent, FALSE, 0, 936), Run(0, TRUE, 0, 44)>>,
      powers |-> <<9, 9, 7, 7, 6, 5, 3, 3, 2, 1, 1, 1, 0, 0, 0, 0>>,
      total_power |-> 54],
     [samples |-> <<Run(Silent, FALSE, 0, 936), Run(15, TRUE, 0, 44)>>,
      powers |-> <<1, 1, 1, 1, 2, 2, 3, 4, 5, 6, 7, 8, 8, 9, 9, 9>>,
      total_power |-> 76],
     [samples |-> <<Run(0, TRUE, 44, 936), Run(0, TRUE, 0, 44)>>,
      powers |-> <<16786, 471, 85, 37, 15, 5, 0, 0, 0, 0, 0, 0, 0, 0, 0, 0>>,
      total_power |-> 17400],
     [samples |-> <<Run(0, TRUE, 44, 936), Run(1, TRUE, 0, 44)>>,
      powers |-> <<16868, 434, 61, 22, 9, 4, 2, 1, 1, 0, 0, 1, 1, 1, 0, 0>>,
      total_power |-> 17406],
     [samples |-> <<Run(0, TRUE, 44, 936), Run(10, TRUE, 0, 44)>>,
      powers |-> <<16033, 593, 121, 51, 19, 8, 9, 13, 15, 14, 12, 8, 7, 6, 5, 4>>,
      total_power |-> 16918],
     [samples |-> <<Run(0, TRUE, 44, 936), Run(12, TRUE, 0, 44)>>,
      powers |-> <<16299, 531, 94, 37, 13, 3, 1, 2, 4, 5, 5, 5, 5, 5, 5, 5>>,
      total_power |-> 17020],
     [samples |-> <<Run(0, TRUE, 44, 936), Run(15, TRUE, 0, 44)>>,
      powers |-> <<16412, 482, 61, 16, 4, 2, 2, 1, 1, 2, 3, 6, 7, 8, 8, 9>>,
      total_power |-> 17026],
     [samples |-> <<Run(1, TRUE, 44, 936), Run(Silent, FALSE, 0, 44)>>,
      powers |-> <<220, 10345, 281, 48, 5, 0, 5, 6, 5, 3, 1, 0, 1, 1, 1, 0>>,
      total_power |-> 10922],
     [samples |-> <<Run(1, TRUE, 44, 936), Run(0, TRUE, 0, 44)>>,
      powers |-> <<221, 10133, 356, 86, 22, 4, 2, 4, 5, 4, 2, 1, 0, 0, 0, 0>>,
      total_power |-> 10840],
     [samples |-> <<Run(1, TRUE, 44, 936), Run(15, TRUE, 0, 44)>>,
      powers |-> <<250, 10538, 265, 49, 9, 1, 0, 1, 1, 3, 4, 4, 5, 5, 5, 6>>,
      total_power |-> 11145],
     [samples |-> <<Run(1, TRUE, 44, 936), Run(2, TRUE, 0, 44)>>,
      powers |-> <<286, 10704, 258, 52, 14, 5, 1, 0, 0, 0, 1, 1, 1, 1, 0, 0>>,
      total_power |-> 11326],
     [samples |-> <<Run(10, TRUE, 44, 936), Run(Silent, FALSE, 0, 44)>>,
      powers |-> <<2, 1, 3, 6, 10, 12, 7, 0, 18, 211, 10321, 274, 43, 3, 1, 6>>,
      total_power |-> 10917],
     [samples |-> <<Run(10, TRUE, 44, 936), Run(10, TRUE, 0, 44)>>,
      powers |-> <<0, 1, 1, 2, 2, 2, 0, 6, 41, 255, 10422, 308, 70, 18, 3, 0>>,
      total_power |-> 11131],
     [samples |-> <<Run(10, TRUE, 44, 936), Run(11, TRUE, 0, 44)>>,
      powers |-> <<0, 0, 2, 4, 6, 5, 1, 5, 43, 276, 10640, 263, 52, 13, 4, 1>>,
      total_power |-> 11316],
     [samples |-> <<Run(10, TRUE, 44, 936), Run(6, TRUE, 0, 44)>>,
      powers |-> <<10, 9, 7, 9, 14, 19, 17, 6, 5, 149, 9861, 343, 67, 11, 3, 9>>,
      total_power |-> 10539],
     [samples |-> <<Run(11, TRUE, 44, 936), Run(12, TRUE, 0, 44)>>,
      powers |-> <<0, 0, 2, 3, 3, 2, 1, 10, 36, 107, 342, 13533, 132, 12, 2, 1>>,
      total_power |-> 14185],
     [samples |-> <<Run(12, TRUE, 44, 936), Run(Silent, FALSE, 0, 44)>>,
      powers |-> <<0, 1, 1, 2, 2, 2, 0, 3, 13, 37, 82, 284, 18096, 6, 34, 35>>,
      total_power |-> 18598],
     [samples |-> <<Run(12, TRUE, 44, 936), Run(13, TRUE, 0, 44)>>,
      powers |-> <<0, 1, 1, 1, 1, 1, 3, 11, 27, 52, 90, 253, 18616, 2, 9, 10>>,
      total_power |-> 19078],
     [samples |-> <<Run(13, TRUE, 44, 936), Run(14, TRUE, 0, 44)>>,
      powers |-> <<0, 0, 1, 1, 0, 1, 4, 9, 16, 23, 27, 17, 1, 18831, 203, 51>>,
      total_power |-> 19184],
     [samples |-> <<Run(14, TRUE, 44, 936), Run(15, TRUE, 0, 44)>>,
      powers |-> <<0, 0, 0, 0, 0, 0, 2, 5, 8, 9, 7, 1, 13, 162, 14015, 258>>,
      total_power |-> 14481],
     [samples |-> <<Run(15, TRUE, 44, 936), Run(0, TRUE, 0, 44)>>,
      powers |-> <<11, 10, 7, 6, 5, 3, 1, 0, 1, 4, 4, 1, 3, 42, 274, 10309>>,
      total_power |-> 10681],
     [samples |-> <<Run(2, TRUE, 44, 936), Run(3, TRUE, 0, 44)>>,
      powers |-> <<110, 344, 13578, 138, 14, 2, 1, 1, 1, 1, 1, 1, 1, 0, 0, 0>>,
      total_power |-> 14194],
     [samples |-> <<Run(3, TRUE, 44, 936), Run(1, TRUE, 0, 44)>>,
      powers |-> <<11, 41, 216, 18563, 6, 33, 41, 31, 18, 8, 2, 1, 1, 1, 1, 1>>,
      total_power |-> 18974],
     [samples |-> <<Run(3, TRUE, 44, 936), Run(4, TRUE, 0, 44)>>,
      powers |-> <<49, 85, 245, 18651, 1, 9, 11, 8, 5, 3, 2, 1, 1, 0, 0, 0>>,
      total_power |-> 19073],
     [samples |-> <<Run(4, TRUE, 44, 936), Run(3, TRUE, 0, 44)>>,
      powers |-> <<8, 12, 11, 1, 18603, 249, 84, 47, 24, 10, 3, 0, 1, 1, 1, 0>>,
      total_power |-> 19054],
     [samples |-> <<Run(4, TRUE, 44, 936), Run(5, TRUE, 0, 44)>>,
      powers |-> <<21, 25, 17, 1, 18764, 209, 52, 24, 10, 5, 3, 1, 1, 0, 0, 0>>,
      total_power |-> 19135],
     [samples |-> <<Run(5, TRUE, 44, 936), Run(6, TRUE, 0, 44)>>,
      powers |-> <<9, 8, 1, 12, 160, 14021, 252, 63, 19, 7, 3, 1, 0, 0, 0, 1>>,
      total_power |-> 14559],
     [samples |-> <<Run(6, TRUE, 44, 936), Run(4, TRUE, 0, 44)>>,
      powers |-> <<1, 3, 6, 12, 41, 230, 10846, 302, 50, 8, 5, 12, 12, 10, 6, 2>>,
      total_power |-> 11545],
     [samples |-> <<Run(6, TRUE, 44, 936), Run(7, TRUE, 0, 44)>>,
      powers |-> <<4, 2, 3, 20, 83, 351, 10127, 216, 32, 7, 2, 1, 0, 0, 1, 1>>,
      total_power |-> 10850],
     [samples |-> <<Run(7, TRUE, 44, 936), Run(8, TRUE, 0, 44)>>,
      powers |-> <<2, 1, 6, 20, 51, 111, 527, 16552, 46, 2, 3, 3, 3, 2, 2, 2>>,
      total_power |-> 17331],
     [samples |-> <<Run(8, TRUE, 44, 936), Run(9, TRUE, 0, 44)>>,
      powers |-> <<0, 1, 6, 15, 27, 41, 58, 62, 19436, 49, 37, 19, 11, 6, 3, 2>>,
      total_power |-> 19774],
     [samples |-> <<Run(9, TRUE, 44, 936), Run(10, TRUE, 0, 44)>>,
      powers |-> <<0, 1, 4, 8, 12, 14, 8, 1, 49, 16882, 438, 66, 25, 9, 4, 2>>,
      total_power |-> 17524],
     [samples |-> <<Run(0, TRUE, 0, 952), Run(0, TRUE, 16, 28)>>,
      powers |-> <<17022, 422, 57, 17, 4, 1, 5, 7, 8, 7, 5, 3, 2, 1, 1, 0>>,
      total_power |-> 17563],
     [samples |-> <<Run(0, TRUE, 0, 952), Run(15, TRUE, 484, 28)>>,
      powers |-> <<16447, 533, 114, 57, 30, 16, 8, 7, 8, 9, 10, 12, 12, 13, 13, 13>>,
      total_power |-> 17301],
     [samples |-> <<Run(1, TRUE, 0, 952), Run(2, TRUE, 484, 28)>>,
      powers |-> <<158, 9795, 401, 111, 44, 27, 27, 28, 26, 22, 16, 9, 5, 3, 2, 1>>,
      total_power |-> 10674],
     [samples |-> <<Run(1, TRUE, 0, 952), Run(3, TRUE, 16, 28)>>,
      powers |-> <<318, 10862, 228, 34, 3, 3, 11, 14, 15, 14, 12, 9, 7, 6, 5, 4>>,
      total_power |-> 11546],
     [samples |-> <<Run(0, TRUE, 0, 968), Run(0, TRUE, 32, 12)>>,
      powers |-> <<16974, 438, 69, 26, 8, 2, 2, 3, 4, 4, 4, 3, 2, 2, 1, 1>>,
      total_power |-> 17544],
     [samples |-> <<Run(0, TRUE, 0, 968), Run(15, TRUE, 500, 12)>>,
      powers |-> <<16678, 489, 93, 42, 18, 8, 3, 3, 3, 3, 4, 3, 3, 3, 3, 3>>,
      total_power |-> 17359],
     [samples |-> <<Run(13, TRUE, 0, 968), Run(14, TRUE, 500, 12)>>,
      powers |-> <<2, 2, 2, 2, 3, 4, 8, 11, 16, 20, 22, 14, 5, 18914, 206, 57>>,
      total_power |-> 19289],
     [samples |-> <<Run(13, TRUE, 0, 968), Run(15, TRUE, 32, 12)>>,
      powers |-> <<2, 2, 2, 2, 2, 3, 6, 11, 17, 23, 27, 20, 2, 18449, 261, 92>>,
      total_power |-> 18920]}

goertzel_bank_optimized(samples) ==
    (CHOOSE row \in GoertzelBank : row.samples = samples).powers

\* total_power = sum(powers) for the powers of a slice
SumOfPowers(samples) ==
    (CHOOSE row \in GoertzelBank : row.samples = samples).total_power

\* a detector without the power gate
NoGate(total_power) == FALSE

\* total_power < signal_threshold (receiver.py:117)
BelowThreshold(total_power) == total_power < signal_threshold

\* a decider that accepts any maximum
AlwaysConfident(max_power, second_max) == FALSE

\* confidence < 1.3, with confidence = max_power / second_max, or infinite
\* when second_max = 0 (receiver.py:134-140)
LowConfidence(max_power, second_max) ==
    second_max > 0 /\ 10 * max_power < 13 * second_max

\* the decision on a power vector (receiver.py:114-143); the index found is
\* the first one that holds the maximum
DecideSymbol(powers, total_power) ==
    LET above == {i \in 1..Len(powers) : powers[i] > 0}
        max_power == IF above = {} THEN 0
                     ELSE powers[CHOOSE i \in above :
                                    \A j \in above : powers[j] <= powers[i]]
        max_power_idx ==
            IF above = {} THEN 0
            ELSE (CHOOSE i \in above :
                     /\ powers[i] = max_power
                     /\ \A j \in above : powers[j] = max_power => i <= j) - 1
        others == {i \in above : i # max_power_idx + 1}
        second_max == IF others = {} THEN 0
                      ELSE powers[CHOOSE i \in others :
                                     \A j \in others : powers[j] <= powers[i]]
    IN  IF BelowThreshold(total_power) THEN None
        ELSE IF LowConfidence(max_power, second_max) THEN None
        ELSE max_power_idx

detect_mfsk_symbol(symbol_data) ==
    DecideSymbol(goertzel_bank_optimized(symbol_data), SumOfPowers(symbol_data))

\* [ok |-> FALSE] stands for the ValueError
symbol_to_bits(symbol_value) ==
    IF symbol_value >= M THEN [ok |-> FALSE, bits |-> <<>>]
    ELSE [ok |-> TRUE, bits |-> Bits4(symbol_value)]

EndsWith(buf, pattern) ==
    /\ Len(buf) >= Len(pattern)
    /\ SubSeq(buf, Len(buf) - Len(pattern) + 1, Len(buf)) = pattern

\* a match on the second half of a pattern only
CheckSyncTail(sync_buffer) ==
    IF EndsWith(sync_buffer, Suffix(sync_patterns.normal, preamble_symbols \div 2))
    THEN "normal"
    ELSE IF EndsWith(sync_buffer, Suffix(sync_patterns.urgent, preamble_symbols \div 2))
    THEN "urgent"
    ELSE "None"

\* a scan that stops after the first pattern of the dictionary
CheckSyncFirstOnly(sync_buffer) ==
    IF EndsWith(sync_buffer, sync_patterns.normal) THEN "normal" ELSE "None"

\* the patterns are tried in the order of the dictionary: normal, urgent
check_sync_patterns(sync_buffer) ==
    IF EndsWith(sync_buffer, sync_patterns.normal) THEN "normal"
    ELSE IF EndsWith(sync_buffer, sync_patterns.urgent) THEN "urgent"
    ELSE "None"

\* what the receiver prints: the tag of the line, the pattern type a sync line
\* names, the text a message line shows
Emit(s, tag, pattern, text) ==
    [s EXCEPT !.console = Append(@, [tag |-> tag, pattern |-> pattern,
                                     text |-> text])]

\* a reset that keeps the sync history
ResetKeepsSync(s) ==
    [s EXCEPT !.bit_buffer = <<>>, !.byte_buffer = <<>>, !.receiving = FALSE,
              !.decoded_buffer = <<>>]

reset_receiver_state(s) ==
    [s EXCEPT !.bit_buffer = <<>>, !.byte_buffer = <<>>, !.receiving = FALSE,
              !.sync_buffer = <<>>, !.decoded_buffer = <<>>]

\* a callback that ignores the status
NoOverflow(status) == FALSE

\* The status of a callback is the set of the flags the driver has raised,
\* each under the name str(status) gives it; no flag raised is falsy.
StatusFlags ==
    {"input underflow", "input overflow", "output underflow", "output overflow",
     "priming output"}

\* the names that hold 'overflow'
OverflowFlags == {"input overflow", "output overflow"}

\* 'overflow' in str(status).lower() (receiver.py:213)
IsOverflow(status) == status \cap OverflowFlags # {}

\* a receiver that gives up the frame when a slice carries no symbol
ResetOnSilence(s) == reset_receiver_state(s)

\* if result[0] is None: return (receiver.py:230-231)
DropSlice(s) == s

\* deque(maxlen=k).append
DequeAppend(q, x, maxlen) ==
    IF Len(q) >= maxlen THEN Append(Tail(q), x) ELSE Append(q, x)

\* receiver.py:235-239
UpdateHistory(s, powers, total_power) ==
    IF s.sample_count % 5000 = 0
    THEN [s EXCEPT !.signal_history = DequeAppend(@, total_power, 100),
                   !.frequency_powers = DequeAppend(@, powers, 50)]
    ELSE s

\* receiver.py:277-289; after the except branch the buffers are empty, which
\* ends this loop and the byte loop
RECURSIVE HammingLoop(_)
HammingLoop(s) ==
    IF Len(s.bit_buffer) < 7 THEN s
    ELSE LET block == Prefix(s.bit_buffer, 7)
             val == hamming_decode_7bit(block)
         IN  IF HammingRaises(block)
             THEN reset_receiver_state(
                      Emit([s EXCEPT !.stats.hamming_errors = @ + 1],
                           "HAMMING ERROR", "", <<>>))
             ELSE HammingLoop([s EXCEPT !.bit_buffer = Suffix(@, 7),
                                        !.decoded_buffer = @ \o Bits4(val)])

LastIndexOf(buf, c) ==
    CHOOSE i \in 1..Len(buf) :
        buf[i] = c /\ \A j \in (i + 1)..Len(buf) : buf[j] # c

\* a finalize that counts the message before decrypt can fail
ReportDecryptedBoth(s, decrypted) ==
    IF decrypted.ok
    THEN Emit([s EXCEPT !.message_count = @ + 1,
                        !.stats.messages_received = @ + 1],
              "RECEIVED", "", decrypted.text)
    ELSE Emit([s EXCEPT !.message_count = @ + 1,
                        !.stats.messages_received = @ + 1,
                        !.stats.messages_failed = @ + 1],
              "DECRYPT ERROR", "", <<>>)

\* receiver.py:316-327: the CRC matched
ReportDecrypted(s, decrypted) ==
    IF decrypted.ok
    THEN Emit([s EXCEPT !.message_count = @ + 1,
                        !.stats.messages_received = @ + 1],
              "RECEIVED", "", decrypted.text)
    ELSE Emit([s EXCEPT !.stats.messages_failed = @ + 1],
              "DECRYPT ERROR", "", <<>>)

\* a finalize that does not check the CRC
ProcessPartsNoCrc(s, password, encrypted_data, crc) ==
    ReportDecrypted(s, decrypt(encrypted_data, password))

\* a finalize that counts a CRC failure as such only
ProcessPartsCrcOnly(s, password, encrypted_data, crc) ==
    IF ~verify_crc(encrypted_data, crc)
    THEN Emit([s EXCEPT !.stats.crc_failures = @ + 1], "CRC FAIL", "", <<>>)
    ELSE ReportDecrypted(s, decrypt(encrypted_data, password))

\* receiver.py:306-330: encrypted_data, crc = full_message.rsplit('|', 1)
ProcessParts(s, password, encrypted_data, crc) ==
    IF ~verify_crc(encrypted_data, crc)
    THEN Emit([s EXCEPT !.stats.crc_failures = @ + 1,
                        !.stats.messages_failed = @ + 1],
              "CRC FAIL", "", <<>>)
    ELSE ReportDecrypted(s, decrypt(encrypted_data, password))

SplitAt(s, password, k) ==
    ProcessParts(s, password, SubSeq(s.byte_buffer, 1, k - 1),
                 SubSeq(s.byte_buffer, k + 1, Len(s.byte_buffer)))

\* an ETX branch that takes a text without delimiter as a text without CRC
ProcessEtxNoCrcText(s, password) ==
    reset_receiver_state(
        IF \A i \in 1..Len(s.byte_buffer) : s.byte_buffer[i] # Delim
        THEN ProcessParts(s, password, s.byte_buffer, <<>>)
        ELSE SplitAt(s, password, LastIndexOf(s.byte_buffer, Delim)))

\* the ETX branch (receiver.py:304-334)
ProcessEtx(s, password) ==
    reset_receiver_state(
        IF \A i \in 1..Len(s.byte_buffer) : s.byte_buffer[i] # Delim
        THEN Emit([s EXCEPT !.stats.messages_failed = @ + 1], "ERROR", "", <<>>)
        ELSE SplitAt(s, password, LastIndexOf(s.byte_buffer, Delim)))

\* int(byte_bits, 2) raises ValueError on a digit that is not binary
ByteRaises(byte_bits) == \E i \in 1..Len(byte_bits) : byte_bits[i] \notin {0, 1}

\* receiver.py:292-342; after the ETX branch and after the except branch the
\* buffers are empty, which ends the loop
RECURSIVE ByteLoop(_, _)
ByteLoop(s, password) ==
    IF Len(s.decoded_buffer) < 8 THEN s
    ELSE LET byte_val == BitsToInt(Prefix(s.decoded_buffer, 8))
             s1 == [s EXCEPT !.decoded_buffer = Suffix(@, 8)]
         IN  IF ByteRaises(Prefix(s.decoded_buffer, 8))
             THEN reset_receiver_state(Emit(s1, "BYTE ERROR", "", <<>>))
             ELSE IF byte_val = STX
             THEN ByteLoop([s1 EXCEPT !.byte_buffer = <<>>], password)
             ELSE IF byte_val = ETX
             THEN ByteLoop(ProcessEtx([s1 EXCEPT !.etx_count = @ + 1], password),
                           password)
             ELSE ByteLoop([s1 EXCEPT !.byte_buffer = Append(@, byte_val)],
                           password)

\* receiver.py:260-342
ProcessData(s, password, symbol_value) ==
    LET symbol_bits == symbol_to_bits(symbol_value)
    IN  IF ~symbol_bits.ok
        THEN reset_receiver_state(Emit([s EXCEPT !.stats.symbol_errors = @ + 1],
                                       "SYMBOL ERROR", "", <<>>))
        ELSE ByteLoop(HammingLoop([s EXCEPT !.bit_buffer = @ \o symbol_bits.bits]),
                      password)

\* a sync history that is never cut
KeepAll(buf) == buf

\* sync_buffer[-max_sync_len * 2:]
TrimSync(buf) ==
    IF Len(buf) > max_sync_len * 2
    THEN SubSeq(buf, Len(buf) - max_sync_len * 2 + 1, Len(buf))
    ELSE buf

\* receiver.py:241-342
ProcessSymbol(s, password, symbol_value) ==
    LET s1 == [s EXCEPT !.sync_buffer = TrimSync(Append(@, symbol_value)),
                        !.decisions = @ + 1]
        pattern_type == check_sync_patterns(s1.sync_buffer)
    IN  IF ~s1.receiving /\ pattern_type # "None"
        THEN Emit([s1 EXCEPT !.bit_buffer = <<>>, !.sync_buffer = <<>>,
                             !.decoded_buffer = <<>>, !.receiving = TRUE],
                  "SYNC DETECTED", pattern_type, <<>>)
        ELSE IF s1.receiving THEN ProcessData(s1, password, symbol_value)
        ELSE s1

\* receiver.py:229-342
ProcessSlice(s, password, symbol_data) ==
    LET symbol_value == detect_mfsk_symbol(symbol_data)
    IN  IF symbol_value = None THEN DropSlice(s)
        ELSE ProcessSymbol(UpdateHistory(s, goertzel_bank_optimized(symbol_data),
                                         SumOfPowers(symbol_data)),
                           password, symbol_value)

\* The callback (receiver.py:208-342) on the receiver's globals s: at most
\* one symbol is processed per call.  On overflow it prints a line and
\* returns; on any other flag it prints the status and goes on.
decode_audio(s, password, indata, status) ==
    IF status # {} /\ IsOverflow(status) THEN Emit(s, "AUDIO", "", <<>>)
    ELSE LET s0 == IF status # {} THEN Emit(s, "AUDIO STATUS", "", <<>>) ELSE s
             s1 == [s0 EXCEPT !.sample_count = @ + SamplesLen(indata),
                              !.symbol_buffer = AppendSamples(@, indata)]
         IN  IF SamplesLen(s1.symbol_buffer) >= symbol_len
             THEN ProcessSlice(
                      [s1 EXCEPT !.symbol_buffer = DropSamples(@, symbol_len)],
                      password, TakeSamples(s1.symbol_buffer, symbol_len))
             ELSE s1

(***************************************************************************)
(* State                                                                   *)
(***************************************************************************)
VARIABLES
    \* the receiver's globals (receiver.py:17-51)
    symbol_buffer, bit_buffer, byte_buffer, receiving, decoded_buffer,
    sync_buffer, message_count, sample_count, stats, signal_history,
    frequency_powers, password,
    \* what the receiver has printed
    console,
    \* history: symbols decided so far, ETX bytes decoded so far
    decisions, etx_count,
    \* the transmitter's passphrase, and what it has emitted
    tx_password, sent,
    \* the audio stream: the block size of the callbacks, the samples not yet
    \* delivered, the last callback (its number, status and block), the
    \* input streams that have been opened with the threads of their
    \* callbacks, and where the handler of the Start Listening button stands
    blocksize, pending, cb,
    \* the codec functions applied on their own: inputs, stage and results
    calc,
    \* the program that transmits: which one it is, where it stands, what it
    \* has shown to its user, and how often it has called sd.play
    app

rxVars == <<symbol_buffer, bit_buffer, byte_buffer, receiving, decoded_buffer,
            sync_buffer, message_count, sample_count, stats, signal_history,
            frequency_powers, console, decisions, etx_count>>

linkVars == <<password, tx_password, sent, blocksize, pending, cb, app>>

vars == <<rxVars, linkVars, calc>>

\* the receiver's globals as one value
Rx ==
    [symbol_buffer |-> symbol_buffer, bit_buffer |-> bit_buffer,
     byte_buffer |-> byte_buffer, receiving |-> receiving,
     decoded_buffer |-> decoded_buffer, sync_buffer |-> sync_buffer,
     message_count |-> message_count, sample_count |-> sample_count,
     stats |-> stats, signal_history |-> signal_history,
     frequency_powers |-> frequency_powers, console |-> console,
     decisions |-> decisions, etx_count |-> etx_count]

SetRx(s) ==
    /\ symbol_buffer' = s.symbol_buffer
    /\ bit_buffer' = s.bit_buffer
    /\ byte_buffer' = s.byte_buffer
    /\ receiving' = s.receiving
    /\ decoded_buffer' = s.decoded_buffer
    /\ sync_buffer' = s.sync_buffer
    /\ message_count' = s.message_count
    /\ sample_count' = s.sample_count
    /\ stats' = s.stats
    /\ signal_history' = s.signal_history
    /\ frequency_powers' = s.frequency_powers
    /\ console' = s.console
    /\ decisions' = s.decisions
    /\ etx_count' = s.etx_count

(***************************************************************************)
(* Inputs                                                                  *)
(***************************************************************************)
MaxOverflows == 1
MaxFlagged == 1
MaxSilentCallbacks == 3

Text_hello == <<104, 101, 108, 108, 111>>
Text_ping == <<112, 105, 110, 103>>
Text_16 == [i \in 1..16 |-> 96 + i]
Text_15 == [i \in 1..15 |-> 64 + i]
Text_17 == [i \in 1..17 |-> 64 + i]
Text_euro == <<233, 8364, 33>>
Text_a == <<97>>

Pass_pw == <<112, 119>>
Pass_k2 == <<107, 50>>
Pass_k6 == <<107, 54>>

Salt_1 == [i \in 1..16 |-> (i * 11) % 256]
Salt_2 == [i \in 1..16 |-> (200 + i * 7) % 256]
Iv_1 == [i \in 1..16 |-> (100 + i * 5) % 256]

Messages == {Text_hello, Text_ping, Text_16}
Priorities == {"normal", "urgent"}
Passwords == {Pass_pw, Pass_k2}
Salts == {Salt_1}
Ivs == {Iv_1}
\* 512 is the block size of the receiver's stream (receiver.py:380)
BlockSizes == {256, 512, 1024, symbol_len, symbol_len - 1}

\* transmitter passphrase, receiver passphrase and block size of a session
Sessions ==
    {[tx |-> Pass_pw, rx |-> Pass_pw, blocksize |-> b] : b \in BlockSizes}
        \cup {[tx |-> Pass_pw, rx |-> k, blocksize |-> b] :
                 k \in {Pass_k2, Pass_k6}, b \in {512, symbol_len}}

(***************************************************************************)
(* Initial state (receiver.py:23-41, 364-365)                              *)
(***************************************************************************)
InitRx ==
    /\ symbol_buffer = <<>>
    /\ bit_buffer = <<>>
    /\ byte_buffer = <<>>
    /\ receiving = FALSE
    /\ decoded_buffer = <<>>
    /\ sync_buffer = <<>>
    /\ message_count = 0
    /\ sample_count = 0
    /\ stats = [messages_received |-> 0, messages_failed |-> 0,
                crc_failures |-> 0, hamming_errors |-> 0, symbol_errors |-> 0]
    /\ signal_history = <<>>
    /\ frequency_powers = <<>>
    /\ console = <<>>
    /\ decisions = 0
    /\ etx_count = 0

NothingSent ==
    [kind |-> "none", message |-> <<>>, priority |-> "normal",
     pos |-> 0, value |-> 0, cut |-> 0]

NoCallback ==
    [n |-> 0, status |-> {}, frames |-> 0, zero |-> FALSE, sliced |-> FALSE,
     slice_zero |-> FALSE, overflows |-> 0, flagged |-> 0, silent |-> 0,
     streams |-> <<>>, click |-> [at |-> "idle", count |-> 0, blocks |-> 0]]

NoCalc == [op |-> "none"]

NoApp == [program |-> "none"]

InitLink(sessions) ==
    /\ InitRx
    /\ \E session \in sessions :
          /\ password = session.rx
          /\ tx_password = session.tx
          /\ blocksize = session.blocksize
    /\ sent = NothingSent
    /\ pending = <<>>
    /\ cb = NoCallback /\ app = NoApp
    /\ calc = NoCalc

Init == InitLink(Sessions)

(***************************************************************************)
(* Actions of the link                                                     *)
(***************************************************************************)
\* send_message plays a transmission into the stream
SendMessage ==
    /\ sent.kind = "none"
    /\ \E message \in Messages, priority \in Priorities,
          salt \in Salts, iv \in Ivs :
          /\ pending' = send_message(message, priority, tx_password, salt, iv)
          /\ sent' = [NothingSent EXCEPT !.kind = "message",
                                         !.message = message,
                                         !.priority = priority]
    /\ UNCHANGED <<rxVars, password, tx_password, blocksize, cb, calc, app>>

\* The driver calls decode_audio with the block indata and status.
Callback(indata, status, rest, silent) ==
    /\ SetRx(decode_audio(Rx, password, indata, status))
    /\ pending' = rest
    /\ cb' = LET buf == AppendSamples(symbol_buffer, indata)
                 sliced == ~IsOverflow(status) /\ SamplesLen(buf) >= symbol_len
             IN  [n |-> cb.n + 1, status |-> status,
                  frames |-> SamplesLen(indata), zero |-> AllZero(indata),
                  sliced |-> sliced,
                  slice_zero |-> sliced /\ AllZero(TakeSamples(buf, symbol_len)),
                  overflows |-> cb.overflows + (IF IsOverflow(status) THEN 1 ELSE 0),
                  flagged |-> cb.flagged + (IF status # {} /\ ~IsOverflow(status)
                                            THEN 1 ELSE 0),
                  silent |-> cb.silent + silent,
                  streams |-> cb.streams, click |-> cb.click]
    /\ UNCHANGED <<password, tx_password, sent, blocksize, calc, app>>

\* the next block of the stream, without status flags
AudioCallback ==
    /\ Len(pending) > 0
    /\ Callback(TakeSamples(pending, blocksize), {},
                DropSamples(pending, blocksize), 0)

Next == SendMessage \/ AudioCallback

Spec == Init /\ [][Next]_vars

Received == SelectSeq(console, LAMBDA line : line.tag = "RECEIVED")

(***************************************************************************)
(* A frame with one byte of its Base64 ciphertext replaced on the way      *)
(***************************************************************************)
TamperPositions == {1, 33, 64}
TamperValues == {0, STX, ETX, 66, 120, Delim, 127, 200}

TamperSessions == {[tx |-> Pass_pw, rx |-> Pass_pw, blocksize |-> symbol_len]}

InitTamper == InitLink(TamperSessions)

\* byte pos of the ciphertext is byte pos + 1 of the frame, after STX
SendTampered ==
    /\ sent.kind = "none"
    /\ \E priority \in Priorities, salt \in Salts, iv \in Ivs,
          pos \in TamperPositions, value \in TamperValues :
          LET framed == FrameMessage(Text_hello, tx_password, salt, iv)
          IN  /\ framed[pos + 1] # value
              /\ pending' = FinalSignal(AllSymbols(
                                [framed EXCEPT ![pos + 1] = value], priority))
              /\ sent' = [NothingSent EXCEPT !.kind = "tampered",
                                             !.message = Text_hello,
                                             !.priority = priority,
                                             !.pos = pos, !.value = value]
    /\ UNCHANGED <<rxVars, password, tx_password, blocksize, cb, calc, app>>

NextTamper == SendTampered \/ AudioCallback

SpecTamper == InitTamper /\ [][NextTamper]_vars

(***************************************************************************)
(* The driver: transmissions that stop early, blocks dropped on overflow,  *)
(* silence after the end of the stream                                     *)
(***************************************************************************)
DriverSessions ==
    {[tx |-> Pass_pw, rx |-> Pass_pw, blocksize |-> b] : b \in {512, symbol_len}}

\* where a transmission stops: after so many data symbols, and so many
\* samples into the next one
CutSymbols == {3, 8}
CutSamples == {0, 500}

\* the symbols of an ETX byte
EtxSymbols == bits_to_symbols(hamming_encode_4bit(0) \o hamming_encode_4bit(ETX))

InitDriver == InitLink(DriverSessions)

SendTruncated ==
    /\ sent.kind = "none"
    /\ \E priority \in Priorities, salt \in Salts, iv \in Ivs,
          k \in CutSymbols, extra \in CutSamples :
          LET cut == silence_samples + (preamble_symbols + k) * symbol_len + extra
          IN  /\ \E signal \in {send_message(Text_hello, priority, tx_password,
                                              salt, iv)} :
                     pending' = TakeSamples(signal, cut)
              /\ sent' = [NothingSent EXCEPT !.kind = "truncated",
                                             !.message = Text_hello,
                                             !.priority = priority,
                                             !.cut = cut]
    /\ UNCHANGED <<rxVars, password, tx_password, blocksize, cb, calc, app>>

\* some other source plays a preamble and an ETX byte
SendStrayEtx ==
    /\ sent.kind = "none"
    /\ \E priority \in Priorities :
          /\ pending' = FinalSignal(generate_preamble(priority) \o EtxSymbols)
          /\ sent' = [NothingSent EXCEPT !.kind = "stray", !.priority = priority]
    /\ UNCHANGED <<rxVars, password, tx_password, blocksize, cb, calc, app>>

\* flags that report an overflow, alone and with another flag
OverflowStatuses ==
    {{"input overflow"}, {"output overflow"}, {"input overflow", "input underflow"}}

\* flags that report no overflow
FlaggedStatuses == {{"input underflow"}, {"priming output"}}

\* the driver reports an overflow with the next block
OverflowCallback ==
    /\ Len(pending) > 0
    /\ cb.overflows < MaxOverflows
    /\ \E status \in OverflowStatuses :
          Callback(TakeSamples(pending, blocksize), status,
                   DropSamples(pending, blocksize), 0)

\* the driver raises another flag with the next block
FlaggedCallback ==
    /\ Len(pending) > 0
    /\ cb.flagged < MaxFlagged
    /\ \E status \in FlaggedStatuses :
          Callback(TakeSamples(pending, blocksize), status,
                   DropSamples(pending, blocksize), 0)

\* after the end of the transmission the stream carries zero samples
SilentCallback ==
    /\ sent.kind # "none"
    /\ Len(pending) = 0
    /\ cb.silent < MaxSilentCallbacks
    /\ Callback(<<Zeros(blocksize)>>, {}, <<>>, 1)

NextDriver ==
    \/ SendTruncated
    \/ SendStrayEtx
    \/ AudioCallback
    \/ OverflowCallback
    \/ FlaggedCallback
    \/ SilentCallback

SpecDriver == InitDriver /\ [][NextDriver]_vars

(***************************************************************************)
(* The Hamming codec applied on its own: a nibble is encoded, one bit of   *)
(* the codeword may be flipped (flip = None: no bit), the word is decoded   *)
(***************************************************************************)
InitHamming ==
    /\ InitRx
    /\ password = <<>> /\ tx_password = <<>> /\ blocksize = symbol_len
    /\ sent = NothingSent /\ pending = <<>> /\ cb = NoCallback /\ app = NoApp
    /\ \E n \in 0..15, i \in 0..6 \cup {None} :
          calc = [op |-> "hamming", stage |-> "input", nibble |-> n,
                  flip |-> i, word |-> <<>>, value |-> None]

HammingEncode ==
    /\ calc.op = "hamming" /\ calc.stage = "input"
    /\ calc' = [calc EXCEPT !.stage = "encoded",
                            !.word = hamming_encode_4bit(calc.nibble)]
    /\ UNCHANGED <<rxVars, linkVars>>

\* flip_i: bit i of the word, counted from 0
HammingFlip ==
    /\ calc.op = "hamming" /\ calc.stage = "encoded"
    /\ calc' = [calc EXCEPT !.stage = "received",
                            !.word = IF calc.flip = None THEN @
                                     ELSE [@ EXCEPT ![calc.flip + 1] = 1 - @]]
    /\ UNCHANGED <<rxVars, linkVars>>

HammingDecode ==
    /\ calc.op = "hamming" /\ calc.stage = "received"
    /\ calc' = [calc EXCEPT !.stage = "decoded",
                            !.value = hamming_decode_7bit(calc.word)]
    /\ UNCHANGED <<rxVars, linkVars>>

NextHamming == HammingEncode \/ HammingFlip \/ HammingDecode

SpecHamming == InitHamming /\ [][NextHamming]_vars

(***************************************************************************)
(* The crypto envelope applied on its own                                  *)
(***************************************************************************)
Plaintexts == {Text_a, Text_hello, Text_15, Text_16, Text_17, Text_euro}

\* data that is no PKCS#7-padded text: last byte 0, last byte beyond the
\* block size, trailing bytes that differ from the last byte
Block_zero == [i \in 1..16 |-> IF i <= 5 THEN 96 + i ELSE 0]
Block_long == [i \in 1..16 |-> IF i <= 5 THEN 96 + i ELSE 17]
Block_mixed == [i \in 1..16 |-> IF i <= 5 THEN 96 + i ELSE IF i = 16 THEN 11 ELSE 120]
Forgeries == {Block_zero, Block_long, Block_mixed}

InitCrypto ==
    /\ InitRx
    /\ password = <<>> /\ tx_password = <<>> /\ blocksize = symbol_len
    /\ sent = NothingSent /\ pending = <<>> /\ cb = NoCallback /\ app = NoApp
    /\ \E p \in Plaintexts, k \in Passwords \cup {<<>>}, salt \in {Salt_1, Salt_2},
          iv \in Ivs :
          calc = [op |-> "crypto", stage |-> "input", plaintext |-> p,
                  password |-> k, salt |-> salt, iv |-> iv, forged |-> FALSE,
                  encrypted |-> <<>>, password2 |-> <<>>,
                  result |-> CipherError]

CryptoEncrypt ==
    /\ calc.op = "crypto" /\ calc.stage = "input"
    /\ calc' = [calc EXCEPT !.stage = "encrypted",
                            !.encrypted = encrypt(calc.plaintext, calc.password,
                                                  calc.salt, calc.iv)]
    /\ UNCHANGED <<rxVars, linkVars>>

\* someone who knows the passphrase encrypts data of their own choice
CryptoForge ==
    /\ calc.op = "crypto" /\ calc.stage = "input"
    /\ calc.plaintext = Text_a
    /\ \E data \in Forgeries :
          calc' = [calc EXCEPT
                      !.stage = "encrypted", !.forged = TRUE,
                      !.encrypted =
                          b64encode(calc.salt \o calc.iv
                                    \o CbcEncrypt(derive_key(calc.password, calc.salt),
                                                  calc.iv, data))]
    /\ UNCHANGED <<rxVars, linkVars>>

CryptoDecrypt ==
    /\ calc.op = "crypto" /\ calc.stage = "encrypted"
    /\ \E k \in Passwords \cup {<<>>} :
          calc' = [calc EXCEPT !.stage = "decrypted", !.password2 = k,
                               !.result = decrypt(calc.encrypted, k)]
    /\ UNCHANGED <<rxVars, linkVars>>

NextCrypto == CryptoEncrypt \/ CryptoForge \/ CryptoDecrypt

SpecCrypto == InitCrypto /\ [][NextCrypto]_vars

\* what AES-CBC decryption yields in decrypt, before the padding is stripped
DecryptedData(encrypted_data, k) ==
    LET decoded == b64decode(encrypted_data).data
    IN  CbcDecrypt(derive_key(k, Prefix(decoded, 16)),
                   Prefix(Suffix(decoded, 16), 16), Suffix(decoded, 32))

\* the last byte is a length in 1..16 and the bytes it names all equal it
ValidPadding(data) ==
    /\ Len(data) > 0
    /\ data[Len(data)] \in 1..BlockBytes
    /\ data[Len(data)] <= Len(data)
    /\ \A i \in (Len(data) - data[Len(data)] + 1)..Len(data) :
          data[i] = data[Len(data)]

(***************************************************************************)
(* Properties of the link (Spec)                                           *)
(***************************************************************************)
Delivered == sent.kind = "message" /\ Len(pending) = 0

\* C1: a transmission of send_message fed to decode_audio in blocks of any
\* of the sizes yields exactly one reported message, with the text sent,
\* messages_received = 1 and messages_failed = 0.
RoundTrip ==
    (Delivered /\ password = tx_password)
        => /\ Len(Received) = 1
           /\ Received[1].text = sent.message
           /\ stats.messages_received = 1
           /\ stats.messages_failed = 0

\* C4: a frame with a correct CRC received under another passphrase than
\* the one it was encrypted with reports no message, leaves
\* messages_received unchanged and adds exactly 1 to messages_failed.
WrongPassphraseFails ==
    (Delivered /\ password # tx_password)
        => /\ Received = <<>>
           /\ stats.messages_received = 0
           /\ stats.messages_failed = 1

\* C8: the message decoded from a frame is reported with the priority of
\* the preamble pattern that locked the receiver, which is the priority it
\* was transmitted with.
PriorityReported ==
    \A i \in 1..Len(console) :
        console[i].tag = "RECEIVED" => console[i].pattern = sent.priority

(***************************************************************************)
(* Properties of the Hamming codec (SpecHamming)                           *)
(***************************************************************************)
\* C2: for every nibble n in 0..15 and every flip position i in 0..6,
\* hamming_decode_7bit(flip_i(hamming_encode_4bit(n))) = n.
HammingCorrectsSingleFlip ==
    (calc.op = "hamming" /\ calc.stage = "decoded" /\ calc.flip # None)
        => calc.value = calc.nibble

(***************************************************************************)
(* Properties of the crypto envelope (SpecCrypto)                          *)
(***************************************************************************)
\* number of padding bytes in what encrypt returned for the plaintext
PaddingLength(encrypted_data, plaintext) ==
    Len(b64decode(encrypted_data).data) - 32 - Len(Utf8Encode(plaintext))

\* C3: decrypt(encrypt(p, k), k) = p for non-empty p; the padding encrypt
\* adds is 1..16 bytes long, 16 for a plaintext of a whole number of blocks,
\* each byte holding that length.
CryptoRoundTrip ==
    (calc.op = "crypto" /\ ~calc.forged)
        => /\ calc.stage \in {"encrypted", "decrypted"} =>
                LET n == PaddingLength(calc.encrypted, calc.plaintext)
                    bytes == Utf8Encode(calc.plaintext)
                IN  /\ n \in 1..16
                    /\ Len(bytes) % 16 = 0 => n = 16
                    /\ DecryptedData(calc.encrypted, calc.password)
                           = bytes \o Repeat(n, n)
           /\ (calc.stage = "decrypted" /\ calc.password2 = calc.password) =>
                calc.result = [ok |-> TRUE, text |-> calc.plaintext]

CryptoRoundTripWitness ==
    /\ calc.op = "crypto" /\ calc.stage = "decrypted" /\ ~calc.forged
    /\ calc.plaintext = Text_16
    /\ calc.password2 = calc.password
    /\ PaddingLength(calc.encrypted, calc.plaintext) = 16
    /\ calc.result.text = Text_16

\* C5: whenever the last byte of the decrypted data is not in 1..16, or the
\* bytes it names are not all equal to it, decrypt fails and returns no
\* plaintext.
DecryptValidatesPadding ==
    (calc.op = "crypto" /\ calc.stage = "decrypted"
        /\ ~ValidPadding(DecryptedData(calc.encrypted, calc.password2)))
        => ~calc.result.ok

(***************************************************************************)
(* Properties of tampered frames (SpecTamper)                              *)
(***************************************************************************)
TamperedDelivered == sent.kind = "tampered" /\ Len(pending) = 0

\* C6 as stated: replacing any one byte of the Base64 ciphertext by any
\* different value makes the frame fail its CRC: no message is reported and
\* crc_failures is incremented.
TamperFailsCrc ==
    TamperedDelivered
        => /\ Received = <<>>
           /\ stats.messages_received = 0
           /\ stats.crc_failures = 1

\* C6: replacing one byte of the Base64 ciphertext by a different value
\* other than ETX makes the frame fail its CRC: no message is reported,
\* crc_failures and messages_failed are each incremented once.  Replaced by
\* ETX, the byte ends the frame before the delimiter: no message is
\* reported, messages_failed is incremented once and crc_failures is not.
TamperDetected ==
    TamperedDelivered
        => /\ Received = <<>>
           /\ stats.messages_received = 0
           /\ stats.messages_failed = 1
           /\ stats.crc_failures = (IF sent.value = ETX THEN 0 ELSE 1)
           /\ \E i \in 1..Len(console) :
                 console[i].tag = (IF sent.value = ETX THEN "ERROR" ELSE "CRC FAIL")

TamperDetectedWitness ==
    /\ TamperedDelivered
    /\ sent.value = Delim
    /\ sent.pos = 33
    /\ stats.crc_failures = 1
    /\ ~receiving

(***************************************************************************)
(* Properties of the callback under the driver (SpecDriver)                *)
(***************************************************************************)
\* the last step was a callback
CallbackStep == cb'.n = cb.n + 1

\* the state the frame decoder keeps, and the symbol decisions made so far
FrameState == <<receiving, sync_buffer, bit_buffer, decoded_buffer,
                byte_buffer, stats, decisions>>

\* C7: once locked, receiving becomes false only in a step that decodes an
\* ETX byte or hits an error, however many callbacks and dropped slices
\* follow; a frame truncated before ETX reports no message and leaves
\* messages_received and messages_failed unchanged.
NoTimeout ==
    /\ [][(receiving /\ ~receiving')
            => \/ etx_count' > etx_count
               \/ stats'.symbol_errors > stats.symbol_errors
               \/ stats'.hamming_errors > stats.hamming_errors]_vars
    /\ [](sent.kind = "truncated"
            => /\ Received = <<>>
               /\ stats.messages_received = 0
               /\ stats.messages_failed = 0)
    /\ []((sent.kind = "truncated" /\ receiving) => []receiving)

NoTimeoutWitness ==
    /\ sent.kind = "truncated"
    /\ receiving
    /\ Len(pending) = 0
    /\ cb.silent = MaxSilentCallbacks
    /\ cb.slice_zero

\* C9 as stated: in any receiver state a block of all-zero samples produces
\* no symbol decision and no state transition.
ZeroBlockChangesNothing ==
    [][(CallbackStep /\ cb'.zero) => UNCHANGED FrameState]_vars

\* C9: a block of all-zero samples produces no symbol decision and no state
\* transition when the slice the callback cuts from the accumulator holds
\* zero samples only, or when it cuts no slice; only the accumulator and the
\* sample count change, and nothing is printed unless the driver has raised
\* a flag.
ZeroSliceChangesNothing ==
    [][(CallbackStep /\ cb'.zero /\ (cb'.slice_zero \/ ~cb'.sliced))
          => /\ UNCHANGED FrameState
             /\ UNCHANGED <<message_count, etx_count, signal_history,
                            frequency_powers>>
             /\ cb'.status = {} => UNCHANGED console]_vars

ZeroSliceWitness ==
    /\ cb.zero /\ cb.slice_zero /\ cb.status = {}
    /\ receiving
    /\ Len(bit_buffer) > 0

\* the status names an overflow
ReportsOverflow(status) ==
    \E flag \in status : flag \in {"input overflow", "output overflow"}

\* C10: a callback whose status reports overflow returns with the whole
\* receiver state unchanged, the accumulator included (it prints one line);
\* the callbacks after it take their blocks into the accumulator and cut
\* their slices as usual.
OverflowDropsBlock ==
    /\ [][(CallbackStep /\ ReportsOverflow(cb'.status))
            => /\ UNCHANGED <<symbol_buffer, bit_buffer, byte_buffer, receiving,
                              decoded_buffer, sync_buffer, message_count,
                              sample_count, stats, signal_history,
                              frequency_powers, decisions, etx_count>>
               /\ console' = Append(console, [tag |-> "AUDIO", pattern |-> "",
                                              text |-> <<>>])]_vars
    /\ [][(CallbackStep /\ ~ReportsOverflow(cb'.status) /\ cb.overflows > 0)
            => /\ sample_count' = sample_count + cb'.frames
               /\ SamplesLen(symbol_buffer') =
                      SamplesLen(symbol_buffer) + cb'.frames
                          - (IF SamplesLen(symbol_buffer) + cb'.frames >= symbol_len
                             THEN symbol_len ELSE 0)]_vars

OverflowWitness ==
    /\ cb.overflows = 1
    /\ cb.status = {}
    /\ cb.sliced
    /\ receiving
    /\ decisions > preamble_symbols

(***************************************************************************)
(* Properties of the sample accumulator (Spec)                             *)
(***************************************************************************)
\* C11: after any callback without overflow returns, for any block size,
\* the accumulator holds fewer than symbol_len samples.
AccumulatorBounded ==
    (cb.n > 0 /\ cb.status = {}) => SamplesLen(symbol_buffer) < symbol_len

(***************************************************************************)
(* The CRC functions applied on their own                                  *)
(***************************************************************************)
Text_digits == [i \in 1..9 |-> 48 + i]

\* the substrings of "123456789", the empty one included
CrcTexts == {SubSeq(Text_digits, i, j) : i \in 1..9, j \in 0..9}

\* str.lower(), on hex digits
Lower(text) == [i \in 1..Len(text) |->
                   IF text[i] >= 65 /\ text[i] <= 90 THEN text[i] + 32
                                                     ELSE text[i]]

InitCrc ==
    /\ InitRx
    /\ password = <<>> /\ tx_password = <<>> /\ blocksize = symbol_len
    /\ sent = NothingSent /\ pending = <<>> /\ cb = NoCallback /\ app = NoApp
    /\ \E data \in CrcTexts :
          calc = [op |-> "crc", stage |-> "input", data |-> data,
                  crc |-> <<>>, crc_hex |-> <<>>, ok |-> FALSE]

CrcCompute ==
    /\ calc.op = "crc" /\ calc.stage = "input"
    /\ calc' = [calc EXCEPT !.stage = "computed",
                            !.crc = compute_crc(calc.data)]
    /\ UNCHANGED <<rxVars, linkVars>>

\* the CRC field of a frame as received: as computed, in lower case, or the
\* CRC of other data
CrcVerify ==
    /\ calc.op = "crc" /\ calc.stage = "computed"
    /\ \E crc_hex \in {calc.crc, Lower(calc.crc), compute_crc(Text_a)} :
          calc' = [calc EXCEPT !.stage = "verified", !.crc_hex = crc_hex,
                               !.ok = verify_crc(calc.data, crc_hex)]
    /\ UNCHANGED <<rxVars, linkVars>>

NextCrc == CrcCompute \/ CrcVerify

SpecCrc == InitCrc /\ [][NextCrc]_vars

(***************************************************************************)
(* Properties of the CRC (SpecCrc)                                         *)
(***************************************************************************)
\* the result is exactly 4 upper-case hex digits
IsHex4(text) ==
    /\ Len(text) = 4
    /\ \A i \in 1..4 : text[i] \in (48..57) \cup (65..70)

\* C13 as stated: compute_crc("123456789") = "31C3", 4 upper-case hex
\* digits.
CrcVector31C3 ==
    (calc.op = "crc" /\ calc.stage # "input" /\ calc.data = Text_digits)
        => calc.crc = <<51, 49, 67, 51>> /\ IsHex4(calc.crc)

\* C13: with polynomial 0x1021, initial value 0xFFFF, no reflection and no
\* final XOR, compute_crc("123456789") = "29B1", compute_crc("") = "FFFF"
\* and compute_crc("1") = "C782"; every result is exactly 4 upper-case hex
\* digits.
CrcVector29B1 ==
    (calc.op = "crc" /\ calc.stage # "input")
        => /\ IsHex4(calc.crc)
           /\ calc.data = Text_digits => calc.crc = <<50, 57, 66, 49>>
           /\ calc.data = <<>> => calc.crc = <<70, 70, 70, 70>>
           /\ calc.data = <<49>> => calc.crc = <<67, 55, 56, 50>>

CrcVectorWitness ==
    /\ calc.op = "crc" /\ calc.stage = "verified"
    /\ calc.data = Text_digits
    /\ calc.crc = <<50, 57, 66, 49>>
    /\ calc.crc_hex = Lower(calc.crc)
    /\ calc.ok

(***************************************************************************)
(* Test vector of the Hamming codec (SpecHamming)                          *)
(***************************************************************************)
\* C14: hamming_encode_4bit(0b1011) is the codeword 1001011, and the word
\* 1011011 decodes to 0b1011.
HammingVector ==
    calc.op = "hamming"
        => /\ (calc.stage = "encoded" /\ calc.nibble = 11)
                => calc.word = <<1, 0, 0, 1, 0, 1, 1>>
           /\ (calc.stage = "decoded" /\ calc.word = <<1, 0, 1, 1, 0, 1, 1>>)
                => calc.value = 11

(***************************************************************************)
(* A preamble followed by a stream of data symbols of any content          *)
(***************************************************************************)
LockSessions ==
    {[tx |-> Pass_pw, rx |-> Pass_pw, blocksize |-> b] : b \in {512, symbol_len}}
        \cup {[tx |-> Pass_pw, rx |-> Pass_k2, blocksize |-> symbol_len]}

\* payload_with_crc of transmitter.py:109 for any text in place of the
\* ciphertext
PayloadWithCrc(encrypted) == encrypted \o <<Delim>> \o compute_crc(encrypted)

Text_AAAA == <<65, 65, 65, 65>>
Text_ab_cd == <<97, 98, Delim, 99, 100>>

\* byte streams: a frame as sent, and frames that lack the STX, carry a CRC
\* in lower case, a wrong CRC, no delimiter, a text that does not decrypt,
\* a delimiter in the text, a second STX, bytes after the ETX (a few, and
\* more than the sync history holds), no ETX; an ETX alone, and text without
\* framing
ByteStreams(framed, encrypted) ==
    {framed,
     Tail(framed),
     <<STX>> \o encrypted \o <<Delim>> \o Lower(compute_crc(encrypted)) \o <<ETX>>,
     <<STX>> \o encrypted \o <<Delim>> \o compute_crc(Text_a) \o <<ETX>>,
     <<STX>> \o encrypted \o <<ETX>>,
     <<STX>> \o PayloadWithCrc(Text_AAAA) \o <<ETX>>,
     <<STX>> \o PayloadWithCrc(Text_ab_cd) \o <<ETX>>,
     <<STX>> \o Text_a \o framed,
     framed \o Text_a \o <<ETX>>,
     framed \o Text_16 \o Text_16,
     SubSeq(framed, 1, Len(framed) - 1),
     <<ETX>>,
     Text_hello \o <<ETX>>}

\* symbol streams that are no Hamming-encoded bytes
SymbolStreams ==
    {[i \in 1..40 |-> (i * 7 + 3) % M],
     [i \in 1..40 |-> (i * i + 5) % M],
     [i \in 1..40 |-> IF i % 3 = 0 THEN M - 1 ELSE (i * 5) % M]}

DataStreams(framed, encrypted) ==
    {bits_to_symbols(EncodeFrame(bytes)) : bytes \in ByteStreams(framed, encrypted)}
        \cup SymbolStreams

InitLock == InitLink(LockSessions)

\* a source plays a preamble and then the data symbols
SendStream ==
    /\ sent.kind = "none"
    /\ \E priority \in Priorities, salt \in Salts, iv \in Ivs :
          \E encrypted \in {encrypt(Text_hello, tx_password, salt, iv)} :
             \E symbols \in DataStreams(<<STX>> \o PayloadWithCrc(encrypted)
                                             \o <<ETX>>, encrypted) :
                /\ pending' = FinalSignal(generate_preamble(priority) \o symbols)
                /\ sent' = [NothingSent EXCEPT !.kind = "stream",
                                               !.message = symbols,
                                               !.priority = priority]
    /\ UNCHANGED <<rxVars, password, tx_password, blocksize, cb, calc, app>>

\* a transmitter plays its test pattern
SendTestPattern ==
    /\ sent.kind = "none"
    /\ pending' = TestPattern
    /\ sent' = [NothingSent EXCEPT !.kind = "pattern"]
    /\ UNCHANGED <<rxVars, password, tx_password, blocksize, cb, calc, app>>

NextLock == SendStream \/ SendTestPattern \/ AudioCallback

SpecLock == InitLock /\ [][NextLock]_vars

(***************************************************************************)
(* What a stream of data symbols says, read off the symbols themselves:    *)
(* the bits of the symbols in blocks of seven, the nibbles of the blocks   *)
(* in pairs, the bytes up to the first ETX.                                *)
(***************************************************************************)
StreamNibbles(bits) ==
    [k \in 1..(Len(bits) \div 7) |->
        hamming_decode_7bit(SubSeq(bits, 7 * k - 6, 7 * k))]

NibblePairs(nibbles) ==
    [k \in 1..(Len(nibbles) \div 2) |-> 16 * nibbles[2 * k - 1] + nibbles[2 * k]]

StreamBytes(symbols) ==
    NibblePairs(StreamNibbles(Flatten([i \in 1..Len(symbols) |-> Bits4(symbols[i])])))

\* the index of the first ETX, 0 without one
FirstEtx(bytes) ==
    IF \A i \in 1..Len(bytes) : bytes[i] # ETX THEN 0
    ELSE CHOOSE i \in 1..Len(bytes) :
            bytes[i] = ETX /\ \A j \in 1..(i - 1) : bytes[j] # ETX

\* the index of the last STX before index e, 0 without one
LastStxBefore(bytes, e) ==
    IF \A i \in 1..(e - 1) : bytes[i] # STX THEN 0
    ELSE CHOOSE i \in 1..(e - 1) :
            bytes[i] = STX /\ \A j \in (i + 1)..(e - 1) : bytes[j] # STX

\* how a text between the framing bytes fares: no delimiter, CRC mismatch,
\* no decryption, or a message
TextVerdict(text, k, key) ==
    IF k = 0 THEN [outcome |-> "ERROR", text |-> <<>>]
    ELSE IF Upper(compute_crc(SubSeq(text, 1, k - 1)))
               # Upper(SubSeq(text, k + 1, Len(text)))
    THEN [outcome |-> "CRC FAIL", text |-> <<>>]
    ELSE IF decrypt(SubSeq(text, 1, k - 1), key).ok
    THEN [outcome |-> "RECEIVED", text |-> decrypt(SubSeq(text, 1, k - 1), key).text]
    ELSE [outcome |-> "DECRYPT ERROR", text |-> <<>>]

LastDelim(text) ==
    IF \A i \in 1..Len(text) : text[i] # Delim THEN 0 ELSE LastIndexOf(text, Delim)

FrameVerdict(bytes, e, key) ==
    IF e = 0 THEN [outcome |-> "NO ETX", text |-> <<>>, stx |-> FALSE]
    ELSE [stx |-> LastStxBefore(bytes, e) > 0] @@
         TextVerdict(SubSeq(bytes, LastStxBefore(bytes, e) + 1, e - 1),
                     LastDelim(SubSeq(bytes, LastStxBefore(bytes, e) + 1, e - 1)),
                     key)

StreamVerdict(symbols, key) ==
    FrameVerdict(StreamBytes(symbols), FirstEtx(StreamBytes(symbols)), key)

\* the stream has been played to its end
StreamPlayed == sent.kind = "stream" /\ Len(pending) = 0

\* C12: a message is reported only if the symbols after the preamble decode
\* to bytes ending in ETX whose text before the last '|' has the CRC that
\* follows it and decrypts, and it is then that text; and a preamble followed
\* by such a frame is reported once the stream has been played.
LockExact ==
    [][/\ (sent.kind = "stream" /\ Received' # Received) =>
           \E verdict \in {StreamVerdict(sent.message, password)} :
              /\ verdict.outcome = "RECEIVED"
              /\ Received = <<>>
              /\ Len(Received') = 1
              /\ Received'[1].text = verdict.text
              /\ stats'.messages_received = 1
       /\ (sent.kind = "stream" /\ Len(pending) > 0 /\ Len(pending') = 0
              /\ Received' = <<>>) =>
           StreamVerdict(sent.message, password).outcome # "RECEIVED"]_vars

LockExactWitness ==
    /\ StreamPlayed
    /\ Len(Received) = 1
    /\ Received[1].text = Text_hello
    /\ stats.messages_received = 1
    /\ sent.priority = "normal"

\* the first ETX of the stream is decoded in this step
FirstEtxStep == sent.kind = "stream" /\ etx_count = 0 /\ etx_count' = 1

\* the frame state after a reset
IsReset ==
    /\ ~receiving
    /\ bit_buffer = <<>>
    /\ decoded_buffer = <<>>
    /\ byte_buffer = <<>>
    /\ sync_buffer = <<>>

HasLine(tag) == \E i \in 1..Len(console) : console[i].tag = tag

\* C15: when an ETX byte is decoded while locked and no STX byte has been
\* decoded since the lock, no message is reported, messages_failed goes up
\* by one and the state is reset, whatever bytes were accumulated.
StrayEtxFails ==
    [][(FirstEtxStep /\ ~StreamVerdict(sent.message, password).stx) =>
          /\ Received' = <<>>
          /\ stats'.messages_failed = stats.messages_failed + 1
          /\ stats'.messages_received = stats.messages_received
          /\ IsReset']_vars

\* C17: whenever an ETX byte is decoded while locked, whatever the outcome,
\* after that callback receiving is false and the bit, decoded-bit, text and
\* sync buffers are all empty.
ResetAfterFinalize ==
    [][etx_count' > etx_count => (receiving /\ IsReset')]_vars

ResetAfterFinalizeWitness ==
    /\ etx_count = 1
    /\ cb.sliced
    /\ HasLine("DECRYPT ERROR")
    /\ console[Len(console)].tag = "DECRYPT ERROR"
    /\ IsReset
    /\ stats.messages_failed = 1
    /\ Len(pending) > 0

\* C20: whenever the ETX branch finds that the CRC of the text before the
\* last '|' is not the text after it, crc_failures and messages_failed each
\* go up by exactly one, messages_received stays, the only line printed is
\* the CRC failure (no decryption result, no message), and the state is
\* reset.
CrcFailurePolicy ==
    [][(FirstEtxStep /\ StreamVerdict(sent.message, password).outcome = "CRC FAIL") =>
          /\ stats'.crc_failures = stats.crc_failures + 1
          /\ stats'.messages_failed = stats.messages_failed + 1
          /\ stats'.messages_received = stats.messages_received
          /\ message_count' = message_count
          /\ console' = Append(console, [tag |-> "CRC FAIL", pattern |-> "",
                                         text |-> <<>>])
          /\ Received' = Received
          /\ IsReset']_vars

CrcFailureWitness ==
    /\ sent.kind = "stream"
    /\ etx_count = 1
    /\ stats.crc_failures = 1
    /\ stats.messages_failed = 1
    /\ stats.messages_received = 0
    /\ console[Len(console)].tag = "CRC FAIL"
    /\ IsReset

\* the patterns as sequences of symbol values
NormalPattern == [i \in 1..preamble_symbols |-> (i - 1) % M]
UrgentPattern == [i \in 1..preamble_symbols |-> IF i % 2 = 1 THEN M - 1 ELSE 0]

\* the symbol the next callback decides, None if it decides none
NextSymbol(buf) ==
    IF SamplesLen(buf) < symbol_len THEN None
    ELSE detect_mfsk_symbol(TakeSamples(buf, symbol_len))

\* the last preamble_symbols entries of the history after the push of a symbol
HistoryTail(history, symbol_value) ==
    Suffix(Append(history, symbol_value),
           Max(0, Len(history) + 1 - preamble_symbols))

IsPattern(tail) == tail = NormalPattern \/ tail = UrgentPattern

\* C18: an idle receiver locks in a callback if and only if the callback
\* decides a symbol and, with it pushed, the last preamble_symbols entries
\* of the sync history are the normal pattern 0, 1, ... or the urgent pattern
\* M-1, 0, M-1, 0, ...; the transmitter's preamble of a priority is the
\* receiver's pattern of that name, and an idle receiver locks on the last
\* preamble symbol, not before and not after.
LockIffPattern ==
    [][(CallbackStep /\ ~receiving) =>
          \E symbol_value \in {NextSymbol(AppendSamples(symbol_buffer,
                                     TakeSamples(pending, blocksize)))} :
             /\ receiving' <=> (symbol_value # None
                                  /\ IsPattern(HistoryTail(sync_buffer, symbol_value)))
             /\ generate_preamble(sent.priority) = sync_patterns[sent.priority]
             /\ sync_patterns.normal = NormalPattern
             /\ sync_patterns.urgent = UrgentPattern
             /\ (console = <<>> /\ decisions' = preamble_symbols) => receiving'
             /\ (console = <<>> /\ receiving') =>
                   /\ decisions' = preamble_symbols
                   /\ console'[1].pattern = sent.priority]_vars

LockIffPatternWitness ==
    /\ receiving
    /\ decisions = preamble_symbols
    /\ sent.priority = "urgent"
    /\ console = <<[tag |-> "SYNC DETECTED", pattern |-> "urgent", text |-> <<>>]>>

\* C19 on the command-line receiver: on every transition from idle to locked
\* the bit, decoded-bit, text and sync buffers are empty after the
\* transition; the symbol that completed the preamble has left no bits.
LockClears ==
    [][(~receiving /\ receiving') =>
          /\ bit_buffer' = <<>>
          /\ decoded_buffer' = <<>>
          /\ byte_buffer' = <<>>
          /\ sync_buffer' = <<>>]_vars

(***************************************************************************)
(* The transmitting programs: transmitter.py run as a program, and the     *)
(* window of gui/transmitter_gui.py                                        *)
(***************************************************************************)
gui_baud_rate == 40
f0 == 1000
f1 == 2000
preamble_bits == 16
gui_symbol_len == fs \div gui_baud_rate
gui_silence_samples == (fs * 5) \div 10

MaxRequests == 2

\* generate_tone: the samples of one bit, with the linear fades at both
\* edges
generate_tone(bit) == Run(IF bit = 1 THEN f1 ELSE f0, TRUE, 0, gui_symbol_len)

\* '01' * (preamble_bits // 2)
PreambleBits == [i \in 1..(2 * (preamble_bits \div 2)) |-> (i + 1) % 2]

\* the signal the window plays (transmitter_gui.py:85-93)
GuiSignal(message, passphrase, salt, iv) ==
    LET full_bits == PreambleBits
                        \o text_to_bits(FrameMessage(message, passphrase, salt, iv))
    IN  [i \in 1..Len(full_bits) |-> generate_tone(full_bits[i])]
            \o <<Zeros(gui_silence_samples)>>

\* shown: the last line a request has printed, the menu, the prompts and the
\* rules of '=' left out (in the window: the text of the status label);
\* waiting: the line the program shows once sd.wait() has returned, "" when
\* it is not in sd.wait()
StartApp(program) ==
    [program |-> program, stage |-> "start", shown |-> "", plays |-> 0,
     requests |-> 0, waiting |-> ""]

PasswordInputs == {<<>>, Pass_pw}
MessageInputs == Messages \cup {<<>>, Text_a}

InitTx ==
    /\ InitRx
    /\ password = <<>>
    /\ tx_password = <<>>
    /\ blocksize = 1024
    /\ sent = NothingSent /\ pending = <<>> /\ cb = NoCallback
    /\ calc = NoCalc
    /\ app \in {StartApp(program) : program \in {"main", "gui"}}

\* sd.play(signal) for a transmit request: the signal goes out and the
\* program enters sd.wait(); shown is the last line shown before, done the
\* line shown after the wait
Play(signal, kind, message, priority, shown, done) ==
    /\ pending' = signal
    /\ sent' = [NothingSent EXCEPT !.kind = kind, !.message = message,
                                   !.priority = priority]
    /\ app' = [app EXCEPT !.plays = @ + 1, !.requests = @ + 1, !.shown = shown,
                          !.waiting = done]

\* sd.wait() returns: the line after it is shown
WaitReturns ==
    /\ app.program \in {"main", "gui"}
    /\ app.waiting # ""
    /\ app' = [app EXCEPT !.shown = app.waiting, !.waiting = ""]
    /\ UNCHANGED <<rxVars, password, tx_password, sent, blocksize, pending, cb,
                   calc>>

\* send_test_pattern()
send_test_pattern ==
    Play(TestPattern, "pattern", <<>>, "normal",
         "Test pattern: 48 symbols + frequency sweep", "Test pattern complete.")

\* transmitter.py:226-230: the program asks for the password and exits on an
\* empty one
MainPassword ==
    /\ app.program = "main" /\ app.stage = "start" /\ app.waiting = ""
    /\ \E text \in PasswordInputs :
          /\ tx_password' = text
          /\ app' = IF text = <<>>
                    THEN [app EXCEPT !.stage = "exited",
                                     !.shown = "Password cannot be empty. Exiting."]
                    ELSE [app EXCEPT !.stage = "menu"]
    /\ UNCHANGED <<rxVars, password, sent, blocksize, pending, cb, calc>>

\* option 1 of the menu (transmitter.py:251-257): an empty message is not
\* sent, a priority that is no priority is normal
MenuSendMessage ==
    /\ app.program = "main" /\ app.stage = "menu" /\ app.waiting = ""
    /\ app.requests < MaxRequests
    /\ \E msg \in MessageInputs, text \in {"normal", "urgent", ""},
          salt \in Salts, iv \in Ivs :
          \E priority \in {IF text \in {"normal", "urgent"} THEN text ELSE "normal"} :
             IF msg = <<>> THEN UNCHANGED <<sent, pending, app>>
             ELSE Play(send_message(msg, priority, tx_password, salt, iv),
                       "message", msg, priority, "Playing signal...",
                       "Transmission completed")
    /\ UNCHANGED <<rxVars, password, tx_password, blocksize, cb, calc>>

\* 'MFSK_BEACON'
Text_beacon == <<77, 70, 83, 75, 95, 66, 69, 65, 67, 79, 78>>

\* option 3 of the menu: send_beacon (transmitter.py:201-204, 262-263)
MenuBeacon ==
    /\ app.program = "main" /\ app.stage = "menu" /\ app.waiting = ""
    /\ app.requests < MaxRequests
    /\ \E salt \in Salts, iv \in Ivs :
          Play(send_message(Text_beacon, "normal", tx_password, salt, iv),
               "message", Text_beacon, "normal", "Playing signal...",
               "Transmission completed")
    /\ UNCHANGED <<rxVars, password, tx_password, blocksize, cb, calc>>

\* option 2 of the menu (transmitter.py:259-260)
MenuTestPattern ==
    /\ app.program = "main" /\ app.stage = "menu" /\ app.waiting = ""
    /\ app.requests < MaxRequests
    /\ send_test_pattern
    /\ UNCHANGED <<rxVars, password, tx_password, blocksize, cb, calc>>

\* option 4 of the menu: display_mfsk_info (transmitter.py:206-218, 265-266)
MenuInfo ==
    /\ app.program = "main" /\ app.stage = "menu" /\ app.waiting = ""
    /\ app' = [app EXCEPT !.shown = "Bandwidth: 1700 Hz"]
    /\ UNCHANGED <<rxVars, password, tx_password, sent, blocksize, pending, cb, calc>>

\* any other choice (transmitter.py:271-272)
MenuInvalid ==
    /\ app.program = "main" /\ app.stage = "menu" /\ app.waiting = ""
    /\ app' = [app EXCEPT !.shown = "Invalid choice. Please enter 1-5."]
    /\ UNCHANGED <<rxVars, password, tx_password, sent, blocksize, pending, cb, calc>>

\* option 5 of the menu (transmitter.py:268-269, 280)
MenuExit ==
    /\ app.program = "main" /\ app.stage = "menu" /\ app.waiting = ""
    /\ app' = [app EXCEPT !.stage = "exited", !.shown = "MFSK Transmitter stopped."]
    /\ UNCHANGED <<rxVars, password, tx_password, sent, blocksize, pending, cb, calc>>

\* the Send button with the test of the password field left out
GuiSendUnchecked ==
    /\ app.program = "gui" /\ app.waiting = "" /\ app.requests < MaxRequests
    /\ \E text \in PasswordInputs, msg \in MessageInputs,
          salt \in Salts, iv \in Ivs :
          /\ tx_password' = text
          /\ Play(GuiSignal(msg, text, salt, iv), "message", msg, "normal",
                  app.shown, "Transmission complete.")
    /\ UNCHANGED <<rxVars, password, blocksize, cb, calc>>

\* the Send button of the window (transmitter_gui.py:71-103) for the
\* passwords and messages given: the password field is read, an empty one
\* is refused
GuiSend(passwords, messages) ==
    /\ app.program = "gui" /\ app.waiting = "" /\ app.requests < MaxRequests
    /\ \E text \in passwords, msg \in messages,
          salt \in Salts, iv \in Ivs :
          /\ tx_password' = text
          /\ IF text = <<>>
             THEN /\ app' = [app EXCEPT !.requests = @ + 1,
                                        !.shown = "Password cannot be empty."]
                  /\ UNCHANGED <<sent, pending>>
             ELSE Play(GuiSignal(msg, text, salt, iv), "message", msg, "normal",
                       app.shown, "Transmission complete.")
    /\ UNCHANGED <<rxVars, password, blocksize, cb, calc>>

GuiSendMessage == GuiSend(PasswordInputs, MessageInputs)

NextTx ==
    \/ MainPassword \/ MenuSendMessage \/ MenuTestPattern \/ MenuBeacon
    \/ MenuInfo \/ MenuInvalid \/ MenuExit
    \/ GuiSendMessage
    \/ WaitReturns

SpecTx == InitTx /\ [][NextTx]_vars

ErrorTexts == {"Password cannot be empty. Exiting.", "Password cannot be empty."}

\* C16: a step of the program made with an empty passphrase (the password
\* typed at the prompt of transmitter.py, the password field of the window
\* when Send is clicked) shows an error and plays nothing.
EmptyPassphraseRejected ==
    [][(app' # app /\ tx_password' = <<>>) =>
          /\ app'.plays = app.plays
          /\ pending' = pending
          /\ sent' = sent
          /\ app'.shown \in ErrorTexts]_vars

\* the window has played a message and then refused a request made with an
\* empty password field
EmptyPassphraseWitness ==
    /\ app.program = "gui"
    /\ tx_password = <<>>
    /\ app.requests = 2
    /\ app.plays = 1
    /\ sent.kind = "message"
    /\ app.shown = "Password cannot be empty."

(***************************************************************************)
(* The window of gui/receiver_gui.py: two tones, one bit per slice, no     *)
(* Hamming code.  Its fields bear the names of the receiver's globals and  *)
(* are kept in the same variables; output_box is the console.              *)
(***************************************************************************)
gui_signal_threshold == 1000

\* The powers goertzel (receiver_gui.py:63-73) computes for a slice of at
\* most gui_symbol_len samples at f0 and at f1, rounded to the nearest
\* integer, for the slices the window cuts from the signals of GuiSignal:
\* slices of gui_symbol_len samples when one thread runs decode_audio, and
\* the repeated or shorter pieces it cuts when the threads of two streams
\* run decode_audio on the same block.  A row is
\* <<slice, power at f0, power at f1>>, the slice written as the numbers
\* SliceKey gives for its runs; the k-th entry holds the slices whose first
\* run has k samples.
GuiGoertzel ==
    <<{},
     {},
     {},
     {},
     {},
     {},
     {},
     {},
     {},
     {},
     {},
     {},
     {},
     {},
     {},
     {},
     {},
     {},
     {},
     {},
     {},
     {},
     {},
     {},
     {},
     {},
     {},
     {},
     {},
     {},
     {},
     {},
     {},
     {},
     {},
     {},
     {},
     {},
     {},
     {},
     {},
     {},
     {},
     {},
     {},
     {},
     {},
     {},
     {},
     {},
     {},
     {},
     {},
     {},
     {},
     {},
     {},
     {},
     {},
     {},
     {},
     {},
     {},
     {},
     {},
     {},
     {},
     {},
     {},
     {},
     {},
     {},
     {},
     {},
     {},
     {},
     {},
     {<<<<1000, 1, 1024, 78, 1000, 1, 0, 1024>>, 22612, 0>>,
      <<<<1000, 1, 1024, 78, 2000, 1, 0, 946, 1000, 1, 1024, 78>>, 39, 18097>>,
      <<<<1000, 1, 1024, 78, 2000, 1, 0, 1024>>, 33, 20970>>,
      <<<<2000, 1, 1024, 78, -1, 0, 0, 1024>>, 1, 19>>,
      <<<<2000, 1, 1024, 78, 1000, 1, 0, 1024>>, 20893, 29>>,
      <<<<2000, 1, 1024, 78, 2000, 1, 0, 1024>>, 0, 22590>>},
     {},
     {},
     {},
     {},
     {},
     {},
     {},
     {},
     {},
     {},
     {},
     {},
     {},
     {},
     {},
     {},
     {},
     {},
     {},
     {},
     {},
     {},
     {},
     {},
     {},
     {},
     {},
     {},
     {},
     {},
     {},
     {},
     {},
     {},
     {},
     {},
     {},
     {},
     {},
     {},
     {},
     {},
     {},
     {},
     {},
     {},
     {},
     {},
     {},
     {},
     {},
     {},
     {},
     {},
     {},
     {},
     {},
     {},
     {},
     {},
     {},
     {},
     {},
     {},
     {},
     {},
     {},
     {},
     {},
     {},
     {},
     {},
     {},
     {},
     {},
     {},
     {},
     {<<<<1000, 1, 946, 156, 1000, 1, 0, 946>>, 22612, 0>>,
      <<<<1000, 1, 946, 156, 2000, 1, 0, 946>>, 246, 18101>>,
      <<<<2000, 1, 946, 156, -1, 0, 0, 946>>, 2, 245>>,
      <<<<2000, 1, 946, 156, 1000, 1, 0, 946>>, 18128, 245>>,
      <<<<2000, 1, 946, 156, 2000, 1, 0, 946>>, 0, 22590>>},
     {},
     {},
     {},
     {},
     {},
     {},
     {},
     {},
     {},
     {},
     {},
     {},
     {},
     {},
     {},
     {},
     {},
     {},
     {},
     {},
     {},
     {},
     {},
     {},
     {},
     {},
     {},
     {},
     {},
     {},
     {},
     {},
     {},
     {},
     {},
     {},
     {},
     {},
     {},
     {},
     {},
     {},
     {},
     {},
     {},
     {},
     {},
     {},
     {},
     {},
     {},
     {},
     {},
     {},
     {},
     {},
     {},
     {},
     {},
     {},
     {},
     {},
     {},
     {},
     {},
     {},
     {},
     {},
     {},
     {},
     {},
     {},
     {},
     {},
     {},
     {},
     {},
     {},
     {},
     {},
     {},
     {},
     {},
     {},
     {},
     {},
     {},
     {},
     {},
     {},
     {},
     {},
     {},
     {},
     {},
     {},
     {},
     {},
     {},
     {},
     {},
     {<<<<1000, 1, 844, 258, 1000, 1, 0, 844>>, 22612, 0>>,
      <<<<1000, 1, 844, 258, 2000, 1, 0, 844>>, 1043, 14041>>,
      <<<<2000, 1, 844, 258, -1, 0, 0, 844>>, 1, 969>>,
      <<<<2000, 1, 844, 258, 1000, 1, 0, 688>>, 6628, 927>>,
      <<<<2000, 1, 844, 258, 1000, 1, 0, 844>>, 13910, 1003>>,
      <<<<2000, 1, 844, 258, 2000, 1, 0, 844>>, 0, 22590>>},
     {},
     {},
     {},
     {},
     {},
     {},
     {},
     {},
     {},
     {},
     {},
     {},
     {},
     {},
     {},
     {},
     {},
     {},
     {},
     {},
     {},
     {},
     {},
     {},
     {},
     {},
     {},
     {},
     {},
     {},
     {},
     {},
     {},
     {},
     {},
     {},
     {},
     {},
     {},
     {},
     {},
     {},
     {},
     {<<<<1000, 1, 800, 302, 1000, 1, 0, 800>>, 22612, 0>>,
      <<<<1000, 1, 800, 302, 2000, 1, 0, 800>>, 1514, 12519>>,
      <<<<2000, 1, 800, 302, -1, 0, 0, 800>>, 1, 1423>>,
      <<<<2000, 1, 800, 302, 1000, 1, 0, 800>>, 12393, 1465>>,
      <<<<2000, 1, 800, 302, 2000, 1, 0, 800>>, 0, 22590>>},
     {},
     {},
     {},
     {},
     {},
     {},
     {},
     {},
     {},
     {},
     {},
     {},
     {},
     {},
     {},
     {},
     {},
     {},
     {},
     {},
     {},
     {},
     {},
     {},
     {},
     {},
     {},
     {},
     {},
     {},
     {},
     {},
     {},
     {<<<<1000, 1, 766, 336, 1000, 1, 0, 766>>, 22612, 0>>,
      <<<<1000, 1, 766, 336, 2000, 1, 0, 766>>, 1843, 11383>>,
      <<<<2000, 1, 766, 336, -1, 0, 0, 766>>, 1, 1846>>,
      <<<<2000, 1, 766, 336, 1000, 1, 0, 688, 2000, 1, 766, 78>>, 8795, 988>>,
      <<<<2000, 1, 766, 336, 1000, 1, 0, 766>>, 11514, 1892>>,
      <<<<2000, 1, 766, 336, 2000, 1, 0, 766>>, 0, 22590>>},
     {},
     {},
     {},
     {},
     {},
     {},
     {},
     {},
     {},
     {},
     {},
     {},
     {},
     {},
     {},
     {},
     {},
     {},
     {},
     {},
     {},
     {},
     {},
     {},
     {},
     {},
     {},
     {},
     {},
     {},
     {},
     {},
     {},
     {},
     {},
     {},
     {},
     {},
     {},
     {},
     {},
     {},
     {},
     {<<<<1000, 1, 722, 380, 1000, 1, 0, 722>>, 22612, 0>>,
      <<<<1000, 1, 722, 380, 2000, 1, 0, 722>>, 2451, 10024>>,
      <<<<2000, 1, 722, 380, -1, 0, 0, 722>>, 1, 2455>>,
      <<<<2000, 1, 722, 380, 1000, 1, 0, 722>>, 10145, 2506>>,
      <<<<2000, 1, 722, 380, 2000, 1, 0, 722>>, 0, 22590>>},
     {},
     {},
     {},
     {},
     {},
     {},
     {},
     {},
     {},
     {},
     {},
     {},
     {},
     {},
     {},
     {},
     {},
     {},
     {},
     {},
     {},
     {},
     {},
     {},
     {},
     {},
     {},
     {},
     {},
     {},
     {},
     {},
     {},
     {<<<<1000, 1, 688, 414, 1000, 1, 0, 688>>, 22612, 0>>,
      <<<<1000, 1, 688, 414, 2000, 1, 0, 688>>, 3005, 9161>>,
      <<<<2000, 1, 688, 414, -1, 0, 0, 688>>, 1, 3000>>,
      <<<<2000, 1, 688, 414, 1000, 1, 0, 688>>, 9107, 2967>>,
      <<<<2000, 1, 688, 414, 2000, 1, 0, 688>>, 0, 22590>>},
     {},
     {},
     {},
     {},
     {},
     {},
     {},
     {},
     {},
     {},
     {},
     {},
     {},
     {},
     {},
     {},
     {},
     {},
     {},
     {},
     {},
     {},
     {},
     {},
     {},
     {},
     {},
     {},
     {},
     {},
     {},
     {},
     {},
     {},
     {},
     {},
     {},
     {},
     {},
     {},
     {},
     {},
     {},
     {},
     {},
     {},
     {},
     {},
     {},
     {},
     {},
     {},
     {},
     {},
     {},
     {},
     {},
     {},
     {},
     {},
     {},
     {},
     {},
     {},
     {},
     {},
     {},
     {},
     {},
     {},
     {},
     {},
     {},
     {},
     {},
     {},
     {},
     {},
     {},
     {},
     {},
     {},
     {},
     {},
     {},
     {},
     {},
     {},
     {},
     {},
     {},
     {},
     {},
     {},
     {},
     {},
     {},
     {},
     {},
     {},
     {},
     {},
     {},
     {},
     {},
     {},
     {},
     {},
     {},
     {},
     {},
     {},
     {},
     {},
     {},
     {},
     {},
     {<<<<1000, 1, 156, 532>>, 6243, 0>>},
     {},
     {},
     {},
     {},
     {},
     {},
     {},
     {},
     {},
     {},
     {},
     {},
     {},
     {},
     {},
     {},
     {},
     {},
     {},
     {},
     {},
     {},
     {},
     {},
     {},
     {},
     {},
     {},
     {},
     {},
     {},
     {},
     {},
     {},
     {},
     {},
     {},
     {},
     {},
     {},
     {},
     {},
     {},
     {},
     {},
     {},
     {},
     {},
     {},
     {},
     {},
     {},
     {},
     {},
     {},
     {},
     {},
     {},
     {},
     {},
     {},
     {},
     {},
     {},
     {},
     {},
     {},
     {},
     {},
     {},
     {},
     {},
     {},
     {},
     {},
     {},
     {},
     {<<<<1000, 1, 78, 610>>, 7562, 0>>,
      <<<<1000, 1, 78, 610, 2000, 1, 766, 336, 1000, 1, 0, 156>>, 8620, 1795>>},
     {},
     {},
     {},
     {},
     {},
     {},
     {},
     {},
     {},
     {},
     {},
     {},
     {},
     {},
     {},
     {},
     {},
     {},
     {},
     {},
     {},
     {},
     {},
     {},
     {},
     {},
     {},
     {},
     {},
     {},
     {},
     {},
     {},
     {<<<<1000, 1, 78, 644>>, 5569, 5>>},
     {},
     {},
     {},
     {},
     {},
     {},
     {},
     {},
     {},
     {},
     {},
     {},
     {},
     {},
     {},
     {},
     {},
     {},
     {},
     {},
     {},
     {},
     {},
     {},
     {},
     {},
     {},
     {},
     {},
     {},
     {},
     {},
     {},
     {},
     {},
     {},
     {},
     {},
     {},
     {},
     {},
     {},
     {},
     {<<<<1000, 1, 0, 688>>, 5724, 1>>,
      <<<<1000, 1, 0, 688, 2000, 1, 766, 336, 1000, 1, 0, 78>>, 9170, 1795>>,
      <<<<2000, 1, 78, 688>>, 1, 9051>>},
     {},
     {},
     {},
     {},
     {},
     {},
     {},
     {},
     {},
     {},
     {},
     {},
     {},
     {},
     {},
     {},
     {},
     {},
     {},
     {},
     {},
     {},
     {},
     {},
     {},
     {},
     {},
     {},
     {},
     {},
     {},
     {},
     {},
     {<<<<1000, 1, 0, 722>>, 6626, 2>>,
      <<<<1000, 1, 0, 722, 1000, 1, 800, 302, 1000, 1, 0, 78>>, 13252, 4>>,
      <<<<1000, 1, 78, 722>>, 6992, 5>>},
     {},
     {},
     {},
     {},
     {},
     {},
     {},
     {},
     {},
     {},
     {},
     {},
     {},
     {},
     {},
     {},
     {},
     {},
     {},
     {},
     {},
     {},
     {},
     {},
     {},
     {},
     {},
     {},
     {},
     {},
     {},
     {},
     {},
     {},
     {},
     {},
     {},
     {},
     {},
     {},
     {},
     {},
     {},
     {<<<<2000, 1, 0, 766>>, 1, 9686>>,
      <<<<2000, 1, 0, 766, 1000, 1, 844, 258, 2000, 1, 0, 78>>, 911, 10682>>},
     {},
     {},
     {},
     {},
     {},
     {},
     {},
     {},
     {},
     {},
     {},
     {},
     {},
     {},
     {},
     {},
     {},
     {},
     {},
     {},
     {},
     {},
     {},
     {<<<<2000, 1, 156, 790>>, 0, 13007>>},
     {},
     {},
     {},
     {},
     {},
     {},
     {},
     {},
     {},
     {<<<<1000, 1, 0, 800>>, 11757, 1>>,
      <<<<1000, 1, 0, 800, 2000, 1, 878, 224, 1000, 1, 0, 78>>, 12963, 576>>},
     {},
     {},
     {},
     {},
     {},
     {},
     {},
     {},
     {},
     {},
     {},
     {},
     {},
     {},
     {},
     {},
     {},
     {},
     {},
     {},
     {},
     {},
     {},
     {},
     {},
     {},
     {},
     {},
     {},
     {},
     {},
     {},
     {},
     {},
     {},
     {},
     {},
     {},
     {},
     {},
     {},
     {},
     {},
     {},
     {},
     {},
     {},
     {},
     {},
     {},
     {},
     {},
     {},
     {},
     {},
     {},
     {},
     {},
     {},
     {},
     {},
     {},
     {},
     {},
     {},
     {},
     {},
     {<<<<2000, 1, 78, 868>>, 5, 10248>>,
      <<<<2000, 1, 78, 868, 1000, 1, 1024, 78, 2000, 1, 0, 156>>, 18, 13417>>},
     {},
     {},
     {},
     {},
     {},
     {},
     {},
     {},
     {},
     {},
     {},
     {},
     {},
     {},
     {},
     {},
     {},
     {},
     {},
     {},
     {},
     {},
     {},
     {},
     {},
     {},
     {},
     {},
     {},
     {},
     {},
     {},
     {},
     {},
     {},
     {},
     {},
     {},
     {},
     {},
     {},
     {},
     {},
     {},
     {},
     {},
     {},
     {},
     {},
     {},
     {},
     {},
     {},
     {},
     {},
     {},
     {},
     {},
     {},
     {},
     {},
     {},
     {},
     {},
     {},
     {},
     {},
     {},
     {},
     {},
     {},
     {},
     {},
     {},
     {},
     {},
     {},
     {<<<<1000, 1, 78, 946>>, 9280, 5>>,
      <<<<1000, 1, 156, 946, 1000, 1, 0, 156>>, 22612, 0>>,
      <<<<1000, 1, 156, 946, 2000, 1, 0, 156>>, 18106, 246>>,
      <<<<2000, 1, 0, 946>>, 1, 17800>>,
      <<<<2000, 1, 0, 946, 1000, 1, 1024, 78, 2000, 1, 0, 78>>, 5, 17211>>,
      <<<<2000, 1, 156, 946, -1, 0, 0, 156>>, 2, 18109>>,
      <<<<2000, 1, 156, 946, 1000, 1, 0, 156>>, 250, 18091>>,
      <<<<2000, 1, 156, 946, 2000, 1, 0, 156>>, 0, 22590>>},
     {},
     {},
     {},
     {},
     {},
     {},
     {},
     {},
     {},
     {},
     {},
     {},
     {},
     {},
     {},
     {},
     {},
     {},
     {},
     {},
     {},
     {},
     {},
     {},
     {},
     {},
     {},
     {},
     {},
     {},
     {},
     {},
     {},
     {},
     {},
     {},
     {},
     {},
     {},
     {},
     {},
     {},
     {},
     {},
     {},
     {},
     {},
     {},
     {},
     {},
     {},
     {},
     {},
     {},
     {},
     {},
     {},
     {},
     {},
     {},
     {},
     {},
     {},
     {},
     {},
     {},
     {},
     {},
     {},
     {},
     {},
     {},
     {},
     {},
     {},
     {},
     {},
     {<<<<1000, 1, 0, 1024, 1000, 1, 0, 78>>, 21510, 5>>,
      <<<<1000, 1, 78, 1024, 1000, 1, 0, 78>>, 22612, 0>>,
      <<<<1000, 1, 78, 1024, 2000, 1, 0, 78>>, 20905, 31>>,
      <<<<2000, 1, 78, 1024, -1, 0, 0, 78>>, 1, 21255>>,
      <<<<2000, 1, 78, 1024, 1000, 1, 0, 78>>, 32, 20919>>,
      <<<<2000, 1, 78, 1024, 2000, 1, 0, 78>>, 0, 22590>>},
     {},
     {},
     {},
     {},
     {},
     {},
     {},
     {},
     {},
     {},
     {},
     {},
     {},
     {},
     {},
     {},
     {},
     {},
     {},
     {},
     {},
     {},
     {},
     {},
     {},
     {},
     {},
     {},
     {},
     {},
     {},
     {},
     {},
     {},
     {},
     {},
     {},
     {},
     {},
     {},
     {},
     {},
     {},
     {},
     {},
     {},
     {},
     {},
     {},
     {},
     {},
     {},
     {},
     {},
     {},
     {},
     {},
     {},
     {},
     {},
     {},
     {},
     {},
     {},
     {},
     {},
     {},
     {},
     {},
     {},
     {},
     {},
     {},
     {},
     {},
     {},
     {},
     {<<<<-1, 0, 0, 1102>>, 0, 0>>,
      <<<<1000, 1, 0, 1102>>, 22612, 0>>,
      <<<<2000, 1, 0, 1102>>, 0, 22590>>}>>

\* The runs of a slice as numbers: tone (Silent is -1), windowed (1) or not
\* (0), first sample, number of samples.
RECURSIVE SliceKey(_)
SliceKey(samples) ==
    IF samples = <<>> THEN <<>>
    ELSE <<samples[1].tone, IF samples[1].windowed THEN 1 ELSE 0,
           samples[1].at, samples[1].n>> \o SliceKey(Tail(samples))

goertzel(samples, freq) ==
    LET row == CHOOSE row \in GuiGoertzel[samples[1].n] : row[1] = SliceKey(samples)
    IN  IF freq = f0 THEN row[2] ELSE row[3]

\* receiver_gui.py:75-86
detect_bit(symbol) ==
    LET power0 == goertzel(symbol, f0)
        power1 == goertzel(symbol, f1)
    IN  IF power0 + power1 < gui_signal_threshold THEN None
        ELSE IF power0 = 0 THEN 1
        ELSE IF 2 * power1 > 3 * power0 THEN 1
        ELSE IF 100 * power1 < 67 * power0 THEN 0
        ELSE None

\* self.sync_buffer[-len(sync_pattern) * 2:]
GuiTrimSync(buf) == Suffix(buf, Max(0, Len(buf) - 2 * Len(PreambleBits)))

\* A thread of the driver inside decode_audio: the line it stands at
\* ("idle" outside), its block, and the locals symbol, bit and byte; tmp is
\* the value of a field it has read and not yet written back (and, from
\* line 117 on, encrypted and msg).  Threads pass from one to the other
\* between any two reads or writes of a field of the window.
IdleThread ==
    [at |-> "idle", indata |-> <<>>, tmp |-> <<>>, symbol |-> <<>>,
     bit |-> None, byte |-> <<>>]

Step(s, th) == [state |-> s, thread |-> th]

\* lines 93-95: the slice is decided; an empty slice divides by zero in
\* goertzel (line 66), which leaves decode_audio
Decided(s, th, bit) ==
    IF bit = None THEN Step(s, [th EXCEPT !.at = "90", !.symbol = <<>>])
    ELSE Step([s EXCEPT !.decisions = @ + 1],
              [th EXCEPT !.at = "96", !.symbol = <<>>, !.bit = bit])

\* lines 110-113 and 124: the byte as a character; int('', 2) raises
Dispatch(s, th) ==
    IF th.byte = <<>> THEN Step(s, [th EXCEPT !.at = "127"])
    ELSE IF BitsToInt(th.byte) = STX THEN Step(s, [th EXCEPT !.at = "112"])
    ELSE IF BitsToInt(th.byte) = ETX
    THEN Step([s EXCEPT !.etx_count = @ + 1], [th EXCEPT !.at = "114"])
    ELSE Step(s, [th EXCEPT !.at = "125"])

\* lines 117-118: a text without '|' cannot be unpacked
SplitAndVerify(s, th) ==
    IF \A i \in 1..Len(s.byte_buffer) : s.byte_buffer[i] # Delim
    THEN Step(s, [th EXCEPT !.at = "127"])
    ELSE IF verify_crc(SubSeq(s.byte_buffer, 1, LastIndexOf(s.byte_buffer, Delim) - 1),
                       SubSeq(s.byte_buffer, LastIndexOf(s.byte_buffer, Delim) + 1,
                              Len(s.byte_buffer)))
    THEN Step(s, [th EXCEPT !.at = "121",
                            !.tmp = SubSeq(s.byte_buffer, 1,
                                           LastIndexOf(s.byte_buffer, Delim) - 1)])
    ELSE Step(s, [th EXCEPT !.at = "119"])

\* line 121: a decryption that raises ends in the handler of line 126
Decrypted(s, th, msg) ==
    IF msg.ok THEN Step(s, [th EXCEPT !.at = "122", !.tmp = msg.text])
    ELSE Step(s, [th EXCEPT !.at = "127", !.tmp = <<>>])

\* ReceiverApp.decode_audio (receiver_gui.py:88-127), from the line the
\* thread stands at to its next read or write of a field; s holds the
\* fields, key the password field
DecodeStep(s, th, key) ==
    CASE th.at = "89" ->
            Step(s, [th EXCEPT !.at = "89w", !.tmp = s.symbol_buffer])
      [] th.at = "89w" ->
            Step([s EXCEPT !.symbol_buffer = AppendSamples(th.tmp, th.indata)],
                 [th EXCEPT !.at = "90", !.tmp = <<>>, !.indata = <<>>])
      [] th.at = "90" ->
            IF SamplesLen(s.symbol_buffer) >= gui_symbol_len
            THEN Step(s, [th EXCEPT !.at = "91", !.bit = None, !.byte = <<>>])
            ELSE Step(s, IdleThread)
      [] th.at = "91" ->
            Step(s, [th EXCEPT !.at = "92",
                               !.symbol = TakeSamples(s.symbol_buffer, gui_symbol_len)])
      [] th.at = "92" ->
            Step(s, [th EXCEPT !.at = "92w", !.tmp = s.symbol_buffer])
      [] th.at = "92w" ->
            IF th.symbol = <<>>
            THEN Step([s EXCEPT !.symbol_buffer = DropSamples(th.tmp, gui_symbol_len)],
                      IdleThread)
            ELSE Decided([s EXCEPT !.symbol_buffer = DropSamples(th.tmp, gui_symbol_len)],
                         [th EXCEPT !.tmp = <<>>], detect_bit(th.symbol))
      [] th.at = "96" ->
            Step(s, [th EXCEPT !.at = "96w", !.tmp = s.sync_buffer])
      [] th.at = "96w" ->
            Step([s EXCEPT !.sync_buffer = Append(th.tmp, th.bit)],
                 [th EXCEPT !.at = "97", !.tmp = <<>>])
      [] th.at = "97" ->
            IF Len(s.sync_buffer) > 2 * Len(PreambleBits)
            THEN Step(s, [th EXCEPT !.at = "98"])
            ELSE Step(s, [th EXCEPT !.at = "99"])
      [] th.at = "98" ->
            Step(s, [th EXCEPT !.at = "98w", !.tmp = s.sync_buffer])
      [] th.at = "98w" ->
            Step([s EXCEPT !.sync_buffer = GuiTrimSync(th.tmp)],
                 [th EXCEPT !.at = "99", !.tmp = <<>>])
      [] th.at = "99" ->
            IF s.receiving THEN Step(s, [th EXCEPT !.at = "104"])
            ELSE Step(s, [th EXCEPT !.at = "99b"])
      [] th.at = "99b" ->
            IF EndsWith(s.sync_buffer, PreambleBits)
            THEN Step(s, [th EXCEPT !.at = "100"])
            ELSE Step(s, [th EXCEPT !.at = "104"])
      [] th.at = "100" ->
            Step([s EXCEPT !.bit_buffer = <<>>], [th EXCEPT !.at = "101"])
      [] th.at = "101" ->
            Step([s EXCEPT !.byte_buffer = <<>>], [th EXCEPT !.at = "102"])
      [] th.at = "102" ->
            Step([s EXCEPT !.receiving = TRUE], [th EXCEPT !.at = "90"])
      [] th.at = "104" ->
            IF s.receiving THEN Step(s, [th EXCEPT !.at = "105"])
            ELSE Step(s, [th EXCEPT !.at = "90"])
      [] th.at = "105" ->
            Step(s, [th EXCEPT !.at = "105w", !.tmp = s.bit_buffer])
      [] th.at = "105w" ->
            Step([s EXCEPT !.bit_buffer = Append(th.tmp, th.bit)],
                 [th EXCEPT !.at = "106", !.tmp = <<>>])
      [] th.at = "106" ->
            IF Len(s.bit_buffer) >= 8
            THEN Step(s, [th EXCEPT !.at = "107"])
            ELSE Step(s, [th EXCEPT !.at = "90"])
      [] th.at = "107" ->
            Step(s, [th EXCEPT !.at = "108", !.byte = Prefix(s.bit_buffer, 8)])
      [] th.at = "108" ->
            Step(s, [th EXCEPT !.at = "108w", !.tmp = s.bit_buffer])
      [] th.at = "108w" ->
            Dispatch([s EXCEPT !.bit_buffer = Suffix(th.tmp, 8)],
                     [th EXCEPT !.tmp = <<>>])
      [] th.at = "112" ->
            Step([s EXCEPT !.byte_buffer = <<>>], [th EXCEPT !.at = "106"])
      [] th.at = "114" ->
            IF \A i \in 1..Len(s.byte_buffer) : s.byte_buffer[i] # Delim
            THEN Step(s, [th EXCEPT !.at = "115"])
            ELSE Step(s, [th EXCEPT !.at = "117"])
      [] th.at = "115" ->
            Step([s EXCEPT !.receiving = FALSE], IdleThread)
      [] th.at = "117" -> SplitAndVerify(s, th)
      [] th.at = "119" ->
            Step(Emit(s, "CRC ERROR", "", <<>>), [th EXCEPT !.at = "123"])
      [] th.at = "121" -> Decrypted(s, th, decrypt(th.tmp, key))
      [] th.at = "122" ->
            Step(Emit(s, "RECEIVED", "", th.tmp),
                 [th EXCEPT !.at = "123", !.tmp = <<>>])
      [] th.at = "123" ->
            Step([s EXCEPT !.receiving = FALSE], [th EXCEPT !.at = "106"])
      [] th.at = "125" ->
            Step(s, [th EXCEPT !.at = "125w", !.tmp = s.byte_buffer])
      [] th.at = "125w" ->
            Step([s EXCEPT !.byte_buffer = Append(th.tmp, BitsToInt(th.byte))],
                 [th EXCEPT !.at = "106", !.tmp = <<>>])
      [] th.at = "127" ->
            Step([s EXCEPT !.receiving = FALSE], [th EXCEPT !.at = "106"])

\* decode_audio from where a thread stands to its return, no other thread
\* in between
RECURSIVE GuiRun(_, _)
GuiRun(step, key) ==
    IF step.thread.at = "idle" THEN step.state
    ELSE GuiRun(DecodeStep(step.state, step.thread, key), key)

\* ReceiverApp.decode_audio (receiver_gui.py:88-127), the whole call
GuiDecodeAudio(s, key, indata) ==
    GuiRun(Step(s, [IdleThread EXCEPT !.at = "89", !.indata = indata]), key)

MaxClicks == 2

\* a stream that the window no longer holds is called so often at most
MaxOverlap == 1

\* so many callbacks at most begin while start_receiving runs
MaxBlocksInClick == 1

\* what is typed into the password field of the window
FieldTexts == {<<>>, Pass_pw, Pass_k2}

\* the Start Listening button is clicked when so many callbacks have run
ClickMoments == {0, 17}

\* ReceiverApp.__init__ (receiver_gui.py:20-34): the password is empty and
\* no stream is open
InitGui ==
    /\ InitRx
    /\ password = <<>>
    /\ tx_password = <<>>
    /\ blocksize = 1024
    /\ sent = NothingSent /\ pending = <<>>
    /\ cb = NoCallback
    /\ calc = NoCalc
    /\ app = StartApp("gui")

\* how often Start Listening has been clicked
Clicks == cb.click.count

\* sd.InputStream(callback=self.decode_audio, ...): held while self.stream
\* names it; served once it has been handed the block that is delivered
\* next; calls counts the callbacks it has begun since the window dropped it
NewStream ==
    [held |-> TRUE, started |-> FALSE, served |-> FALSE, calls |-> 0,
     thread |-> IdleThread]

\* the driver calls the callback of a started stream; what it does with a
\* stream that the window has dropped without stopping it is not defined:
\* it calls it for some more blocks, or no longer
Callable(stream) ==
    stream.started /\ (stream.held \/ stream.calls < MaxOverlap)

InCallback(stream) == stream.thread.at # "idle"

\* every stream that is called has had the block and has returned from
\* its callback: the next block is delivered
BlockDone(streams) ==
    /\ \A i \in 1..Len(streams) :
          /\ ~InCallback(streams[i])
          /\ Callable(streams[i]) => streams[i].served
    /\ \E i \in 1..Len(streams) : streams[i].served

NextBlock(streams) ==
    IF BlockDone(streams)
    THEN [i \in 1..Len(streams) |-> [streams[i] EXCEPT !.served = FALSE]]
    ELSE streams

\* the streams that the window holds or the driver still calls
Live(streams) ==
    SelectSeq(streams, LAMBDA stream :
                 stream.held \/ Callable(stream) \/ InCallback(stream))

\* the Start Listening button is clicked (receiver_gui.py:54, 129-131):
\* the handler is entered and has touched no field of the window yet.  It
\* is entered between two blocks; a handler entered while a callback runs
\* differs only in steps of the callback that come before line 132, which
\* GuiCallback and DecodeAudioStep take after this step.
start_receiving ==
    /\ cb.click.at = "idle"
    /\ Clicks < MaxClicks
    /\ cb.n \in ClickMoments
    /\ \A i \in 1..Len(cb.streams) :
          ~InCallback(cb.streams[i]) /\ ~cb.streams[i].served
    /\ cb' = [cb EXCEPT !.click = [at |-> "132", count |-> @.count + 1,
                                   blocks |-> 0]]
    /\ UNCHANGED <<rxVars, password, tx_password, sent, blocksize, pending,
                   calc, app>>

\* receiver_gui.py:132: the password is taken from the field as it is
StorePassword ==
    /\ cb.click.at = "132"
    /\ \E text \in FieldTexts : password' = text
    /\ cb' = [cb EXCEPT !.click.at = "133"]
    /\ UNCHANGED <<rxVars, tx_password, sent, blocksize, pending, calc, app>>

\* receiver_gui.py:133
ShowListening ==
    /\ cb.click.at = "133"
    /\ console' = Append(console, [tag |-> "LISTENING", pattern |-> "",
                                   text |-> <<>>])
    /\ cb' = [cb EXCEPT !.click.at = "134"]
    /\ UNCHANGED <<symbol_buffer, bit_buffer, byte_buffer, receiving,
                   decoded_buffer, sync_buffer, message_count, sample_count,
                   stats, signal_history, frequency_powers, decisions,
                   etx_count, password, tx_password, sent, blocksize, pending,
                   calc, app>>

\* receiver_gui.py:134-139: another input stream is opened and self.stream
\* names it; the stream named before is dropped without being stopped.  A
\* stream the driver refuses raises before self.stream is assigned.
OpenStream ==
    /\ cb.click.at = "134"
    /\ \E opened \in BOOLEAN :
          cb' = IF opened
                THEN [cb EXCEPT !.click.at = "140",
                                !.streams =
                                    Append(Live([i \in 1..Len(cb.streams) |->
                                                    [cb.streams[i] EXCEPT !.held = FALSE]]),
                                           NewStream)]
                ELSE [cb EXCEPT !.click.at = "142"]
    /\ UNCHANGED <<rxVars, password, tx_password, sent, blocksize, pending,
                   calc, app>>

\* receiver_gui.py:140: the stream is started, or the driver raises; the
\* first block of the stream is the first one that no stream has been
\* handed yet
StartStream ==
    /\ cb.click.at = "140"
    /\ \E started \in BOOLEAN :
          cb' = IF started
                THEN [cb EXCEPT !.click.at = "idle", !.click.blocks = 0,
                                !.streams[Len(cb.streams)].started = TRUE,
                                !.streams[Len(cb.streams)].served =
                                    \E i \in 1..Len(cb.streams) : cb.streams[i].served]
                ELSE [cb EXCEPT !.click.at = "142"]
    /\ UNCHANGED <<rxVars, password, tx_password, sent, blocksize, pending,
                   calc, app>>

\* receiver_gui.py:141-142
ShowError ==
    /\ cb.click.at = "142"
    /\ console' = Append(console, [tag |-> "STREAM ERROR", pattern |-> "",
                                   text |-> <<>>])
    /\ cb' = [cb EXCEPT !.click.at = "idle", !.click.blocks = 0]
    /\ UNCHANGED <<symbol_buffer, bit_buffer, byte_buffer, receiving,
                   decoded_buffer, sync_buffer, message_count, sample_count,
                   stats, signal_history, frequency_powers, decisions,
                   etx_count, password, tx_password, sent, blocksize, pending,
                   calc, app>>

\* the messages sent to the window that listens
GuiHeard == {Text_hello}

\* the Send button, once what was played has been heard
GuiTransmit ==
    /\ sent.kind = "none"
    /\ GuiSend({Pass_pw}, GuiHeard)

\* sd.wait() returns when the signal has been played to its end
GuiWaitReturns ==
    /\ Len(pending) = 0
    /\ WaitReturns

\* no other thread runs while stream i is in its callback: the handler of
\* the button is not running, and no other stream is called or in its
\* callback
Alone(i) ==
    /\ cb.click.at = "idle"
    /\ \A j \in 1..Len(cb.streams) :
          j # i => ~Callable(cb.streams[j]) /\ ~InCallback(cb.streams[j])

\* the driver calls the window's decode_audio for a started stream with
\* the block that is delivered next, on the thread of that stream.  With
\* no other thread running the call is one step; otherwise the thread
\* enters line 89 and goes on in the steps of DecodeAudioStep.
GuiCallback ==
    /\ Len(pending) > 0
    /\ cb.click.at # "idle" => cb.click.blocks < MaxBlocksInClick
    /\ \E i \in 1..Len(cb.streams) :
          /\ Callable(cb.streams[i])
          /\ ~InCallback(cb.streams[i])
          /\ ~cb.streams[i].served
          /\ \E called \in {Live([cb.streams EXCEPT
                                ![i].served = TRUE,
                                ![i].calls = IF cb.streams[i].held THEN 0 ELSE @ + 1,
                                ![i].thread = IF Alone(i) THEN IdleThread
                                              ELSE [IdleThread EXCEPT
                                                       !.at = "89",
                                                       !.indata = TakeSamples(pending, blocksize)]])} :
                /\ IF Alone(i)
                   THEN SetRx(GuiDecodeAudio(Rx, password,
                                             TakeSamples(pending, blocksize)))
                   ELSE UNCHANGED rxVars
                /\ pending' = IF BlockDone(called)
                              THEN DropSamples(pending, blocksize) ELSE pending
                /\ cb' = [cb EXCEPT !.n = @ + 1,
                                    !.frames = SamplesLen(TakeSamples(pending, blocksize)),
                                    !.click.blocks = IF cb.click.at # "idle"
                                                     THEN @ + 1 ELSE @,
                                    !.streams = NextBlock(called)]
    /\ UNCHANGED <<password, tx_password, sent, blocksize, calc, app>>

\* a thread inside decode_audio goes on to its next read or write of a
\* field of the window
DecodeAudioStep ==
    \E i \in 1..Len(cb.streams) :
       /\ InCallback(cb.streams[i])
       /\ \E step \in {DecodeStep(Rx, cb.streams[i].thread, password)} :
             /\ SetRx(step.state)
             /\ \E stepped \in {Live([cb.streams EXCEPT ![i].thread = step.thread])} :
                   /\ pending' = IF BlockDone(stepped)
                                 THEN DropSamples(pending, blocksize) ELSE pending
                   /\ cb' = [cb EXCEPT !.streams = NextBlock(stepped)]
       /\ UNCHANGED <<password, tx_password, sent, blocksize, calc, app>>

\* the driver no longer calls a stream that the window has dropped
StreamEnds ==
    \E i \in 1..Len(cb.streams) :
       /\ Callable(cb.streams[i])
       /\ ~cb.streams[i].held
       /\ ~InCallback(cb.streams[i])
       /\ \E ended \in {Live([cb.streams EXCEPT ![i].started = FALSE])} :
             /\ pending' = IF BlockDone(ended)
                           THEN DropSamples(pending, blocksize) ELSE pending
             /\ cb' = [cb EXCEPT !.streams = NextBlock(ended)]
       /\ UNCHANGED <<rxVars, password, tx_password, sent, blocksize, calc, app>>

NextGui ==
    \/ GuiTransmit \/ GuiWaitReturns
    \/ start_receiving \/ StorePassword \/ ShowListening \/ OpenStream
    \/ StartStream \/ ShowError
    \/ GuiCallback \/ DecodeAudioStep \/ StreamEnds

SpecGui == InitGui /\ [][NextGui]_vars

\* C19: on every transition from idle to locked the bit, decoded-bit, text
\* and sync buffers are all empty after the transition, and the symbol that
\* completed the preamble has contributed no bits; here for the window's
\* receiver.
GuiLockClears ==
    [][(~receiving /\ receiving') =>
          /\ bit_buffer' = <<>>
          /\ decoded_buffer' = <<>>
          /\ byte_buffer' = <<>>
          /\ sync_buffer' = <<>>]_vars

\* C21: when the ETX is decoded and the text holds no '|', the only line
\* printed is the framing error (no CRC failure, no decryption result, no
\* message), messages_failed goes up by exactly one, crc_failures and
\* messages_received stay, and the state is reset.
MissingDelimiterFails ==
    [][(FirstEtxStep /\ StreamVerdict(sent.message, password).outcome = "ERROR") =>
          /\ console' = Append(console, [tag |-> "ERROR", pattern |-> "",
                                         text |-> <<>>])
          /\ stats'.messages_failed = stats.messages_failed + 1
          /\ stats'.crc_failures = stats.crc_failures
          /\ stats'.messages_received = stats.messages_received
          /\ message_count' = message_count
          /\ Received' = Received
          /\ IsReset']_vars

MissingDelimiterWitness ==
    /\ sent.kind = "stream"
    /\ etx_count = 1
    /\ console[Len(console)].tag = "ERROR"
    /\ stats.messages_failed = 1
    /\ stats.crc_failures = 0
    /\ \E i \in 1..Len(StreamBytes(sent.message)) :
          StreamBytes(sent.message)[i] \notin {STX, ETX, Delim}
    /\ IsReset

(***************************************************************************)
(* check_sync_patterns applied on its own to a sync history                *)
(***************************************************************************)
SyncTails ==
    {sync_patterns[name] : name \in {"normal", "urgent"}}
        \cup {[sync_patterns[name] EXCEPT ![i] = v] :
                 name \in {"normal", "urgent"}, i \in {1, 8, 16}, v \in {0, 7, M - 1}}
        \cup {SubSeq(sync_patterns[name], i, j) :
                 name \in {"normal", "urgent"}, i \in {1, 2}, j \in {0, 15}}
        \cup {Append(sync_patterns[name], v) :
                 name \in {"normal", "urgent"}, v \in {0, M - 1}}

SyncHeads == {<<>>, <<3>>, sync_patterns.normal, sync_patterns.urgent}

SyncHistories == {TrimSync(head \o tail) : head \in SyncHeads, tail \in SyncTails}

InitSync ==
    /\ InitRx
    /\ password = <<>> /\ tx_password = <<>> /\ blocksize = symbol_len
    /\ sent = NothingSent /\ pending = <<>> /\ cb = NoCallback /\ app = NoApp
    /\ \E history \in SyncHistories :
          calc = [op |-> "sync", stage |-> "input", sync_buffer |-> history,
                  pattern_type |-> "None"]

SyncScan ==
    /\ calc.op = "sync" /\ calc.stage = "input"
    /\ calc' = [calc EXCEPT !.stage = "scanned",
                            !.pattern_type = check_sync_patterns(calc.sync_buffer)]
    /\ UNCHANGED <<rxVars, linkVars>>

NextSync == SyncScan

SpecSync == InitSync /\ [][NextSync]_vars

\* a scan that tests urgent before normal and returns the first match
UrgentFirstScan(history) ==
    IF Len(history) >= preamble_symbols
          /\ Suffix(history, Len(history) - preamble_symbols) = UrgentPattern
    THEN "urgent"
    ELSE IF Len(history) >= preamble_symbols
               /\ Suffix(history, Len(history) - preamble_symbols) = NormalPattern
    THEN "normal"
    ELSE "None"

\* C22: for every sync history the pattern type the receiver's scan returns
\* is the one returned by a scan that tests urgent before normal and returns
\* the first match.
ScanOrderIrrelevant ==
    (calc.op = "sync" /\ calc.stage = "scanned") =>
        calc.pattern_type = UrgentFirstScan(calc.sync_buffer)

ScanOrderWitness ==
    /\ calc.op = "sync" /\ calc.stage = "scanned"
    /\ calc.pattern_type = "urgent"
    /\ Len(calc.sync_buffer) = 2 * preamble_symbols
    /\ SubSeq(calc.sync_buffer, 1, preamble_symbols) = NormalPattern

\* the last n entries of a sequence, all of them if it has fewer
LastEntries(s, n) == Suffix(s, Max(0, Len(s) - n))

\* C23: after every callback, idle or locked, the sync history holds at
\* most 2 * preamble_symbols entries; a callback that decides no symbol
\* leaves it as it is, and one that decides a symbol leaves it either empty
\* (the receiver has locked or has been reset) or holding the most recent
\* entries of the history with the symbol appended, in arrival order.
SyncHistoryBounded ==
    [][CallbackStep =>
          \E symbol_value \in {NextSymbol(AppendSamples(symbol_buffer,
                                     TakeSamples(pending, blocksize)))} :
             /\ Len(sync_buffer') <= 2 * preamble_symbols
             /\ symbol_value = None => sync_buffer' = sync_buffer
             /\ symbol_value # None =>
                   \/ sync_buffer' = <<>> /\ receiving' # receiving
                   \/ /\ sync_buffer' = LastEntries(Append(sync_buffer, symbol_value),
                                                    2 * preamble_symbols)
                      /\ receiving' = receiving]_vars

\* the history is full and has been cut, in a locked and in an idle receiver
SyncHistoryWitness ==
    /\ Len(sync_buffer) = 2 * preamble_symbols
    /\ ~receiving
    /\ etx_count = 1
    /\ decisions > 3 * preamble_symbols + 2 * preamble_symbols
    /\ Len(Received) = 1

\* the symbols of a played signal: the tones between the two silences
EmittedSymbols(signal) == [i \in 1..(Len(signal) - 2) |-> signal[i + 1].tone]

\* the Hamming words of the two nibbles of each byte, high nibble first
NibbleWords(framed) ==
    Flatten([i \in 1..(2 * Len(framed)) |->
                hamming_encode_4bit(IF i % 2 = 1 THEN framed[(i + 1) \div 2] \div 16
                                    ELSE framed[i \div 2] % 16)])

\* groups of four bits, most significant first, the last one filled with
\* zero bits
GroupsOfFour(bits) ==
    [k \in 1..((Len(bits) + 3) \div 4) |->
        SumSeq([j \in 1..4 |->
                   IF 4 * (k - 1) + j <= Len(bits)
                   THEN bits[4 * (k - 1) + j] * (2 ^ (4 - j)) ELSE 0])]

IsTransmitSequence(symbols, framed, priority) ==
    /\ symbols = (IF priority = "urgent" THEN UrgentPattern ELSE NormalPattern)
                    \o GroupsOfFour(NibbleWords(framed)) \o generate_postamble
    /\ Len(symbols) = preamble_symbols + (14 * Len(framed) + 3) \div 4
                          + postamble_symbols
    /\ \A i \in 1..Len(symbols) : symbols[i] \in 0..(M - 1)

\* the transmitter has played a message and no block of it has been heard
JustSent == sent.kind = "message" /\ cb.n = 0

\* C24: for a framed message of n bytes the emitted symbols are the
\* preamble of the priority, then the data symbols, then the postamble; the
\* data symbols are the groups of four bits, most significant first, of the
\* Hamming words of the frame's nibbles (high nibble first), filled with
\* zero bits at the end only; there are ceil(14n/4) of them and every
\* emitted symbol is in 0..M-1.
TransmitSequence ==
    JustSent =>
        \E salt \in Salts, iv \in Ivs :
           IsTransmitSequence(EmittedSymbols(pending),
                              FrameMessage(sent.message, tx_password, salt, iv),
                              sent.priority)

TransmitSequenceWitness ==
    /\ JustSent
    /\ sent.priority = "urgent"
    /\ sent.message = Text_16
    /\ Len(pending) = 2 + preamble_symbols + (14 * 95 + 3) \div 4 + postamble_symbols
    /\ pending[2].tone = M - 1

(***************************************************************************)
(* The decision of detect_mfsk_symbol applied on its own to power vectors  *)
(***************************************************************************)
\* vectors with power a in bin i, b in bin j and c elsewhere
PowerVectors ==
    {[k \in 1..M |-> IF k = i THEN a ELSE IF k = j THEN b ELSE c] :
        i \in {1, 8, M}, j \in {1, 2, M},
        a \in {0, 40, 100, 130}, b \in {0, 60, 100, 101}, c \in {0, 1}}

InitDecide ==
    /\ InitRx
    /\ password = <<>> /\ tx_password = <<>> /\ blocksize = symbol_len
    /\ sent = NothingSent /\ pending = <<>> /\ cb = NoCallback /\ app = NoApp
    /\ \E powers \in PowerVectors :
          calc = [op |-> "decide", stage |-> "input", powers |-> powers,
                  symbol_value |-> None]

Decide ==
    /\ calc.op = "decide" /\ calc.stage = "input"
    /\ calc' = [calc EXCEPT !.stage = "decided",
                            !.symbol_value = DecideSymbol(calc.powers,
                                                          SumSeq(calc.powers))]
    /\ UNCHANGED <<rxVars, linkVars>>

NextDecide == Decide

SpecDecide == InitDecide /\ [][NextDecide]_vars

\* the first index, from 0, of the largest power
FirstMaxIndex(P) ==
    (CHOOSE i \in 1..Len(P) :
        /\ \A j \in 1..Len(P) : P[j] <= P[i]
        /\ \A j \in 1..(i - 1) : P[j] < P[i]) - 1

\* the largest power at any other index
SecondPower(P, istar) ==
    LET others == {P[j] : j \in 1..Len(P) \ {istar + 1}}
    IN  CHOOSE x \in others : \A y \in others : y <= x

\* the decision as the rule states it
RuleDecision(P) ==
    IF SumSeq(P) < signal_threshold THEN None
    ELSE IF SecondPower(P, FirstMaxIndex(P)) > 0
            /\ 10 * P[FirstMaxIndex(P) + 1] < 13 * SecondPower(P, FirstMaxIndex(P))
    THEN None
    ELSE FirstMaxIndex(P)

\* C25: for every power vector the decider returns None if the sum is
\* below the power gate; otherwise, with i* the first index of the maximum
\* and second the largest power at any other index, None if second > 0 and
\* P[i*] / second < 1.3, and i* otherwise; a returned symbol is in 0..M-1.
SymbolDecision ==
    (calc.op = "decide" /\ calc.stage = "decided") =>
        /\ calc.symbol_value = RuleDecision(calc.powers)
        /\ calc.symbol_value # None => calc.symbol_value \in 0..(M - 1)

SymbolDecisionWitness ==
    /\ calc.op = "decide" /\ calc.stage = "decided"
    /\ calc.symbol_value = M - 1
    /\ calc.powers[M] = 130
    /\ calc.powers[1] = 100
    /\ calc.powers[2] = 1

(***************************************************************************)
(* The receiver as a program (receiver.py:359-397): the driver's thread    *)
(* calls decode_audio while the main thread sleeps, wakes every ten        *)
(* seconds and reads the counters.                                         *)
(***************************************************************************)
MaxWakes == 1

\* sample_count % 441000 (receiver.py:385)
status_period == 441000

\* the stream is opened with blocksize=512 (receiver.py:380)
MainSessions == {[tx |-> Pass_pw, rx |-> Pass_pw, blocksize |-> 512]}

\* the first sample count that is a multiple of the block size and of
\* status_period
FirstStatusCount == 64 * status_period

\* the main thread: where it stands ("sleep" in time.sleep of line 383,
\* "time" before line 386, "print" between the two reads of line 387), how
\* often it has woken, the values it has read since the last wake, and the
\* status lines it has printed as <<Samples, Messages>>
StartMain ==
    [program |-> "receiver", at |-> "sleep", wakes |-> 0, read |-> <<>>,
     status |-> <<>>]

\* the program after the prompt and the start of the stream, and the
\* program after it has heard silence for two blocks less than
\* FirstStatusCount samples, with the silence going on
InitMain ==
    /\ bit_buffer = <<>>
    /\ byte_buffer = <<>>
    /\ receiving = FALSE
    /\ decoded_buffer = <<>>
    /\ sync_buffer = <<>>
    /\ message_count = 0
    /\ stats = [messages_received |-> 0, messages_failed |-> 0,
                crc_failures |-> 0, hamming_errors |-> 0, symbol_errors |-> 0]
    /\ signal_history = <<>>
    /\ frequency_powers = <<>>
    /\ console = <<>>
    /\ decisions = 0
    /\ etx_count = 0
    /\ \E session \in MainSessions :
          /\ password = session.rx
          /\ tx_password = session.tx
          /\ blocksize = session.blocksize
    /\ \/ /\ sample_count = 0
          /\ symbol_buffer = <<>>
          /\ sent = NothingSent
          /\ pending = <<>>
       \/ /\ sample_count = FirstStatusCount - 2 * blocksize
          /\ symbol_buffer = <<Zeros(sample_count % symbol_len)>>
          /\ sent = [NothingSent EXCEPT !.kind = "silence"]
          /\ pending = <<Zeros(3 * blocksize)>>
    /\ cb = NoCallback
    /\ calc = NoCalc
    /\ app = StartMain

\* a transmitter in the room sends one message
MainHears ==
    /\ sent.kind = "none"
    /\ \E priority \in Priorities, salt \in Salts, iv \in Ivs :
          /\ pending' = send_message(Text_hello, priority, tx_password, salt, iv)
          /\ sent' = [NothingSent EXCEPT !.kind = "message",
                                         !.message = Text_hello,
                                         !.priority = priority]
    /\ UNCHANGED <<rxVars, password, tx_password, blocksize, cb, calc, app>>

\* a wake that clears the counter it has read
MainLoopClears ==
    /\ app.program = "receiver" /\ app.at = "sleep" /\ app.wakes < MaxWakes
    /\ app' = [app EXCEPT !.wakes = @ + 1, !.read = <<sample_count>>]
    /\ sample_count' = 0
    /\ UNCHANGED <<symbol_buffer, bit_buffer, byte_buffer, receiving,
                   decoded_buffer, sync_buffer, message_count, stats,
                   signal_history, frequency_powers, console, decisions,
                   etx_count, password, tx_password, sent, blocksize, pending,
                   cb, calc>>

\* time.sleep(10) returns and the main thread tests sample_count
\* (receiver.py:383-385); it goes on to the status line when the count is a
\* positive multiple of status_period, and back to sleep otherwise
MainLoopWake ==
    /\ app.program = "receiver" /\ app.at = "sleep" /\ app.wakes < MaxWakes
    /\ app' = [app EXCEPT !.wakes = @ + 1,
                          !.read = <<sample_count>>,
                          !.at = IF sample_count > 0
                                    /\ sample_count % status_period = 0
                                 THEN "time" ELSE "sleep"]
    /\ UNCHANGED <<rxVars, password, tx_password, sent, blocksize, pending,
                   cb, calc>>

\* the runtime is taken and the status line is begun: sample_count is read
\* again (receiver.py:386-387)
MainLoopSamples ==
    /\ app.program = "receiver" /\ app.at = "time"
    /\ app' = [app EXCEPT !.read = Append(@, sample_count), !.at = "print"]
    /\ UNCHANGED <<rxVars, password, tx_password, sent, blocksize, pending,
                   cb, calc>>

\* message_count is read and the status line is printed (receiver.py:387)
MainLoopPrint ==
    /\ app.program = "receiver" /\ app.at = "print"
    /\ app' = [app EXCEPT !.read = Append(@, message_count),
                          !.status = Append(@, <<app.read[2], message_count>>),
                          !.at = "sleep"]
    /\ UNCHANGED <<rxVars, password, tx_password, sent, blocksize, pending,
                   cb, calc>>

NextMain ==
    MainHears \/ AudioCallback \/ MainLoopWake \/ MainLoopSamples \/ MainLoopPrint

SpecMain == InitMain /\ [][NextMain]_vars

\* the receiver state of the claim: accumulator, sync history, receiving,
\* the bit, decoded-bit and text buffers, the statistics and the counters
ReceiverState ==
    <<symbol_buffer, sync_buffer, receiving, bit_buffer, decoded_buffer,
      byte_buffer, stats, sample_count, message_count>>

\* C26: while the stream runs every write to the receiver state happens in
\* a callback; a step of the main thread reads the counters and leaves the
\* receiver state as it is, so the states reached with the main thread
\* interleaved are those of the callbacks run one after the other.
SingleOwnership ==
    [][/\ ReceiverState' # ReceiverState => CallbackStep
       /\ app' # app => (UNCHANGED ReceiverState /\ UNCHANGED cb
                           /\ app'.read[Len(app'.read)]
                                  = IF app.at = "print" THEN message_count
                                    ELSE sample_count)]_vars

\* the main thread woke in the middle of a frame, which was then received
SingleOwnershipWitness ==
    /\ app.program = "receiver"
    /\ app.wakes = 1
    /\ app.read[1] > silence_samples + preamble_symbols * symbol_len
    /\ app.read[1] < silence_samples + (preamble_symbols + 20) * symbol_len
    /\ Len(Received) = 1
    /\ Received[1].text = Text_hello
    /\ message_count = 1
    /\ sample_count > app.read[1]

(***************************************************************************)
(* The except branches of the data path (receiver.py:260-289, 339-342)     *)
(***************************************************************************)
Words7 == [1..7 -> {0, 1}]

HammingTotal ==
    \A w \in Words7 :
        /\ error_pos(w) \in 0..7
        /\ ~HammingRaises(w)
        /\ hamming_decode_7bit(w) \in 0..15

ErrorLine ==
    HasLine("HAMMING ERROR") \/ HasLine("SYMBOL ERROR") \/ HasLine("BYTE ERROR")

\* C27: hamming_decode_7bit returns a value 0..15 for each of the 128 words
\* (error_pos 0..7) and every decided symbol is below M, so hamming_errors
\* and symbol_errors stay 0, no error line is printed, and the receiver
\* stops receiving only in a step that decodes an ETX byte.
NoErrorPaths ==
    [][/\ sent' # sent => HammingTotal
       /\ stats'.hamming_errors = 0
       /\ stats'.symbol_errors = 0
       /\ ~ErrorLine'
       /\ sync_buffer' # sync_buffer
             => (sync_buffer' = <<>> \/ sync_buffer'[Len(sync_buffer')] \in 0..(M - 1))
       /\ (receiving /\ ~receiving') => etx_count' = etx_count + 1]_vars

\* blocks with every error position, among them 7, and the symbol M - 1 have
\* been decoded while receiving, and the receiver still receives
NoErrorPathsWitness ==
    /\ StreamPlayed
    /\ sent.message \in SymbolStreams
    /\ \E i \in 1..Len(sent.message) : sent.message[i] = M - 1
    /\ \E bits \in {Flatten([i \in 1..Len(sent.message) |-> Bits4(sent.message[i])])} :
          \A pos \in 0..7 :
             \E k \in 1..(Len(bits) \div 7) :
                error_pos(SubSeq(bits, 7 * k - 6, 7 * k)) = pos
    /\ receiving
    /\ Len(byte_buffer) + 2 * etx_count >= 8
    /\ stats.hamming_errors = 0
    /\ stats.symbol_errors = 0

(***************************************************************************)
(* Two frames one after the other, each behind its own preamble: the       *)
(* counters of receiver.py:33-41 over more than one ETX                    *)
(***************************************************************************)
CountSessions ==
    {[tx |-> Pass_pw, rx |-> rx, blocksize |-> symbol_len] : rx \in Passwords}

\* a frame as sent, a frame whose text does not decrypt, a frame with a
\* wrong CRC, a frame without delimiter, and a text without ETX
CountFrames(framed) ==
    {framed,
     <<STX>> \o PayloadWithCrc(Text_AAAA) \o <<ETX>>,
     <<STX>> \o Text_a \o <<Delim>> \o compute_crc(Text_hello) \o <<ETX>>,
     <<STX>> \o Text_a \o <<ETX>>,
     <<STX>> \o Text_a}

InitCount == InitLink(CountSessions)

SendPair ==
    /\ sent.kind = "none"
    /\ \E salt \in Salts, iv \in Ivs :
          \E framed \in {FrameMessage(Text_hello, tx_password, salt, iv)} :
             \E first \in CountFrames(framed), second \in CountFrames(framed) :
                \E symbols \in {bits_to_symbols(EncodeFrame(first))
                                   \o generate_preamble("urgent")
                                   \o bits_to_symbols(EncodeFrame(second))} :
                   /\ pending' = FinalSignal(generate_preamble("normal") \o symbols)
                   /\ sent' = [NothingSent EXCEPT !.kind = "pair",
                                                  !.message = symbols]
    /\ UNCHANGED <<rxVars, password, tx_password, blocksize, cb, calc, app>>

NextCount == SendPair \/ AudioCallback

SpecCount == InitCount /\ [][NextCount]_vars

Counters == <<stats.messages_received, stats.messages_failed, stats.crc_failures>>

\* C28: a step that decodes an ETX byte raises exactly one of
\* messages_received and messages_failed, by one, so their sum is the number
\* of ETX bytes decoded; crc_failures is at most messages_failed; no counter
\* goes down; a step that decodes no ETX byte leaves the three as they are.
CounterAccounting ==
    [][/\ etx_count' \in {etx_count, etx_count + 1}
       /\ etx_count' = etx_count + 1
             => \/ /\ stats'.messages_received = stats.messages_received + 1
                   /\ stats'.messages_failed = stats.messages_failed
                \/ /\ stats'.messages_received = stats.messages_received
                   /\ stats'.messages_failed = stats.messages_failed + 1
       /\ etx_count' = etx_count => Counters' = Counters
       /\ stats'.messages_received + stats'.messages_failed = etx_count'
       /\ stats'.crc_failures <= stats'.messages_failed
       /\ stats'.crc_failures >= stats.crc_failures]_vars

\* a frame was received and the next one failed its CRC
CounterAccountingWitness ==
    /\ sent.kind = "pair"
    /\ etx_count = 2
    /\ stats.messages_received = 1
    /\ stats.messages_failed = 1
    /\ stats.crc_failures = 1
    /\ Len(Received) = 1

(***************************************************************************)
(* The frame's control bytes against its text (transmitter.py:106-122,     *)
(* receiver.py:300-316)                                                    *)
(***************************************************************************)
Count(text, c) == Cardinality({i \in 1..Len(text) : text[i] = c})

Inner(framed) == SubSeq(framed, 2, Len(framed) - 1)

IsTransparent(framed, encrypted) ==
    /\ framed[1] = STX
    /\ Count(framed, STX) = 1
    /\ framed[Len(framed)] = ETX
    /\ Count(framed, ETX) = 1
    /\ Count(framed, Delim) = 1
    /\ \A i \in 1..Len(framed) : framed[i] < 128
    /\ \E k \in {LastIndexOf(Inner(framed), Delim)} :
          /\ SubSeq(Inner(framed), 1, k - 1) = encrypted
          /\ SubSeq(Inner(framed), k + 1, Len(framed) - 2) = compute_crc(encrypted)

\* C29: in the frame of a message STX is the first byte only, ETX the last
\* byte only, '|' occurs once and every byte is below 0x80; the split at
\* the last '|' gives the Base64 ciphertext and its CRC; and the receiver
\* decodes an ETX byte only when it has collected the whole text of the
\* frame.
FramingTransparent ==
    [][/\ (sent.kind = "none" /\ sent'.kind = "message")
          => \A salt \in Salts, iv \in Ivs :
                IsTransparent(FrameMessage(sent'.message, tx_password, salt, iv),
                              encrypt(sent'.message, tx_password, salt, iv))
       /\ (sent.kind = "message" /\ etx_count' # etx_count)
          => /\ etx_count' = 1
             /\ \A salt \in Salts, iv \in Ivs :
                   byte_buffer
                      = Inner(FrameMessage(sent.message, tx_password, salt, iv))]_vars

\* the ETX of the longest message's frame has been decoded
FramingTransparentWitness ==
    /\ sent.kind = "message"
    /\ sent.message = Text_16
    /\ etx_count = 1
    /\ Len(Received) = 1
    /\ Received[1].text = Text_16

====
